---- MODULE Spec2Model ----
(***************************************************************************)
(* BloxMate supervisor: classification of a query by the completion        *)
(* service, confidence-gated dispatch to one of five responders, answer    *)
(* extraction from the captured output of the product responder, the       *)
(* insufficiency evaluator and the web escalation pipeline                 *)
(* (src/server/supervisor.py, src/server/response.py,                      *)
(* src/server/linkedin.py).                                                *)
(*                                                                         *)
(* Text is modelled at word level: a text is a sequence of words and of    *)
(* the token NL (a line break); consecutive words of a line are separated  *)
(* by exactly one blank.  A stream (sys.stdout, a StringIO) is a text.     *)
(***************************************************************************)
EXTENDS Integers, Sequences, FiniteSets

\* ------------------------------------------------------------------------
\* Bounds of the model
\* ------------------------------------------------------------------------
\* longest run of fraction digits in a classifier reply
MaxFracDigits == 2

\* ------------------------------------------------------------------------
\* Words and texts
\* ------------------------------------------------------------------------
NL == "\n"

RAG_MARKER == "RAG Answer:"
GPT_MARKER == "GPT-4o Answer:"

\* str.lower() on the words of the vocabulary that have upper-case letters
Lower(w) ==
  CASE w = "The" -> "the"
    [] w = "I" -> "i"
    [] w = "DOES" -> "does"
    [] w = "NIOS" -> "nios"
    [] w = "Infoblox" -> "infoblox"
    [] w = "Not" -> "not"
    [] w = "Mentioned" -> "mentioned"
    [] w = "In" -> "in"
    [] w = "Context" -> "context"
    [] w = "Jane Doe" -> "jane doe"
    [] w = "JANE DOE" -> "jane doe"
    [] w = "John Smith" -> "john smith"
    [] w = "Jane" -> "jane"
    [] w = "J" -> "j"
    [] w = "Ann Lee" -> "ann lee"
    [] OTHER -> w

\* words of the vocabulary of which another word is a proper suffix / prefix
EndsWithPairs == { <<"cannot", "not">> }
StartsWithPairs == { <<"mentioned", "mention">> }

\* one word of a text against one word of a literal; openLeft / openRight
\* say whether the literal may start / end inside the word (substring
\* search); ci is re.IGNORECASE or a comparison of lower-cased strings
WordMatch(w, pw, openLeft, openRight, ci) ==
  LET a == IF ci THEN Lower(w) ELSE w
      b == IF ci THEN Lower(pw) ELSE pw
  IN  /\ w # NL
      /\ \/ a = b
         \/ openLeft /\ <<a, b>> \in EndsWithPairs
         \/ openRight /\ <<a, b>> \in StartsWithPairs

\* the literal p (a sequence of words joined by single blanks) occurs in t
\* starting at word i
PhraseAt(t, i, p, openLeft, openRight, ci) ==
  /\ i >= 1
  /\ i + Len(p) - 1 <= Len(t)
  /\ \A k \in 1..Len(p) :
        WordMatch(t[i + k - 1], p[k], openLeft /\ k = 1,
                  openRight /\ k = Len(p), ci)

\* Python's `p in t` for a literal p
ContainsPhrase(t, p, ci) ==
  \E i \in 1..Len(t) : PhraseAt(t, i, p, TRUE, TRUE, ci)

\* str.split('\n'): the lines of a text; n-1 line breaks give n lines
RECURSIVE SplitFrom(_, _, _)
SplitFrom(t, i, cur) ==
  IF i > Len(t) THEN <<cur>>
  ELSE IF t[i] = NL THEN <<cur>> \o SplitFrom(t, i + 1, <<>>)
  ELSE SplitFrom(t, i + 1, Append(cur, t[i]))

SplitLines(t) == SplitFrom(t, 1, <<>>)

\* str.strip(): leading and trailing white space removed
RECURSIVE LStrip(_)
LStrip(t) == IF t # <<>> /\ Head(t) = NL THEN LStrip(Tail(t)) ELSE t

RECURSIVE RStrip(_)
RStrip(t) ==
  IF t # <<>> /\ t[Len(t)] = NL THEN RStrip(SubSeq(t, 1, Len(t) - 1)) ELSE t

Strip(t) == RStrip(LStrip(t))

\* print(text) on a stream: the text and a line break are appended
Emit(stream, t) == stream \o t \o <<NL>>

RECURSIVE EmitAll(_, _)
EmitAll(stream, ts) ==
  IF ts = <<>> THEN stream ELSE EmitAll(Emit(stream, Head(ts)), Tail(ts))

\* ------------------------------------------------------------------------
\* classify_query: the reply of the completion service and its parsing
\* ------------------------------------------------------------------------
AgentTags == {"product", "learning", "org_chart", "workplace_comms", "onboarding"}

DigitChars == <<"0", "1", "2", "3", "4", "5", "6", "7", "8", "9">>
IsDigit(c) == \E n \in 1..10 : DigitChars[n] = c
DigitVal(c) == (CHOOSE n \in 1..10 : DigitChars[n] = c) - 1

\* a confidence is the decimal num/den, den a power of ten
Conf(n, d) == [num |-> n, den |-> d]

\* variant: a threshold of 0.5
THRESHOLD_HALF == Conf(5, 10)

\* the dispatch threshold 0.6 and the fallback confidence 0.5
THRESHOLD == Conf(6, 10)
DEFAULT_CLASSIFICATION == [agent_type |-> "product", confidence |-> Conf(5, 10)]

GreaterEq(a, b) == a.num * b.den >= b.num * a.den
InUnitInterval(c) == c.num >= 0 /\ c.num <= c.den

\* re.search(r"AGENT:(product|learning|org_chart|workplace_comms|onboarding)")
AgentMatchAt(r, i) == i + 1 <= Len(r) /\ r[i] = "AGENT:" /\ r[i + 1] \in AgentTags
HasAgentMatch(r) == \E i \in 1..Len(r) : AgentMatchAt(r, i)
AgentGroup(r) ==
  LET i == CHOOSE j \in 1..Len(r) :
              AgentMatchAt(r, j) /\ \A k \in 1..(j - 1) : ~AgentMatchAt(r, k)
  IN  r[i + 1]

\* re.search(r"CONFIDENCE:([0-9]\.[0-9]+)"): one digit, a point, then the
\* longest run of digits
ConfMatchAt(r, i) ==
  /\ i + 3 <= Len(r)
  /\ r[i] = "CONFIDENCE:"
  /\ IsDigit(r[i + 1])
  /\ r[i + 2] = "."
  /\ IsDigit(r[i + 3])
HasConfMatch(r) == \E i \in 1..Len(r) : ConfMatchAt(r, i)

RECURSIVE ReadFraction(_, _, _)
\* float() of the digits from position i on, as a fraction continuing acc
ReadFraction(r, i, acc) ==
  IF i <= Len(r) /\ IsDigit(r[i])
  THEN ReadFraction(r, i + 1, Conf(acc.num * 10 + DigitVal(r[i]), acc.den * 10))
  ELSE acc

ConfGroup(r) ==
  LET i == CHOOSE j \in 1..Len(r) :
              ConfMatchAt(r, j) /\ \A k \in 1..(j - 1) : ~ConfMatchAt(r, k)
  IN  ReadFraction(r, i + 3, Conf(DigitVal(r[i + 1]), 1))

\* variant: the tag of the reply is kept when only the confidence is missing
ParseClassificationKeepsTag(r) ==
  IF HasAgentMatch(r) /\ HasConfMatch(r)
  THEN [agent_type |-> AgentGroup(r), confidence |-> ConfGroup(r)]
  ELSE IF HasAgentMatch(r)
  THEN [agent_type |-> AgentGroup(r), confidence |-> Conf(5, 10)]
  ELSE [agent_type |-> "product", confidence |-> Conf(5, 10)]

\* lines 83-92: both matches, else the default classification
ParseClassification(r) ==
  IF HasAgentMatch(r) /\ HasConfMatch(r)
  THEN [agent_type |-> AgentGroup(r), confidence |-> ConfGroup(r)]
  ELSE DEFAULT_CLASSIFICATION

\* ------------------------------------------------------------------------
\* response.py: the product responder
\* ------------------------------------------------------------------------
infoblox_keywords ==
  << <<"infoblox">>, <<"nios">>, <<"ipam">>, <<"dddi">>, <<"tdi">>,
     <<"netmri">>, <<"bloxone">>, <<"network", "insight">>,
     <<"cloud", "dhcp">>, <<"cloud", "dns">>, <<"cloud", "ipam">>,
     <<"bloxone", "threat", "defense">>, <<"grid", "manager">>,
     <<"dns", "firewall">>, <<"infoblox", "api">>, <<"ib-nios">>,
     <<"bloxapp">>, <<"threat", "intelligence">>, <<"data", "connector">>,
     <<"reporting", "server">>, <<"ib", "appliance">>,
     <<"infoblox", "central">> >>

\* variant: the query is compared as typed
is_infoblox_query_cased(q) ==
  \E n \in 1..Len(infoblox_keywords) : ContainsPhrase(q, infoblox_keywords[n], FALSE)

\* any(keyword in query.lower() for keyword in infoblox_keywords)
is_infoblox_query(q) ==
  \E n \in 1..Len(infoblox_keywords) : ContainsPhrase(q, infoblox_keywords[n], TRUE)

\* what answer_direct_gpt prints before the completion call, and after it
DirectGptProlog(q) == <<NL, "Using GPT-4o for Infoblox-related question:", NL, "Q:">> \o q
DirectGptAnswer(content) == << <<NL, GPT_MARKER, NL>>, content >>

\* what load_cached_vectorstore prints: index present, or built from the store
LoadCachedLines == << <<"Using cached FAISS index from:", "faiss_path">> >>
LoadBuildProlog == << <<"Loading embeddings from Parquet:", "parquet_path">> >>
LoadBuildLines ==
  LoadBuildProlog \o << <<"Creating FAISS vectorstore from cached embeddings...">>,
                        <<"FAISS index saved to:", "faiss_path">> >>

\* what run_rag_query prints before retrieval, and after the completion call
RagProlog(q) == <<NL, "Query:">> \o q
RagAnswer(content) == << <<NL, RAG_MARKER, NL>>, content >>

\* ------------------------------------------------------------------------
\* supervisor.py: answer extraction, lines 134-143
\* ------------------------------------------------------------------------
IsMarkerLine(line) ==
  \/ ContainsPhrase(line, <<RAG_MARKER>>, FALSE)
  \/ ContainsPhrase(line, <<GPT_MARKER>>, FALSE)

RECURSIVE ExtractFrom(_, _, _, _)
ExtractFrom(lines, i, capture_answer, acc) ==
  IF i > Len(lines) THEN acc
  ELSE IF IsMarkerLine(lines[i]) THEN ExtractFrom(lines, i + 1, TRUE, acc)
  ELSE IF capture_answer
       THEN ExtractFrom(lines, i + 1, capture_answer, acc \o lines[i] \o <<NL>>)
       ELSE ExtractFrom(lines, i + 1, capture_answer, acc)

ExtractAnswer(output) == ExtractFrom(SplitLines(output), 1, FALSE, <<>>)

\* ------------------------------------------------------------------------
\* supervisor.py: the insufficiency evaluator
\* ------------------------------------------------------------------------
\* a pattern is a literal (gap FALSE, pre only) or `pre .* post` with
\* alternatives on either side; the blanks around .* belong to the pattern
Literal(p) == [pre |-> {p}, gap |-> FALSE, post |-> {}]
Gapped(a, b) == [pre |-> a, gap |-> TRUE, post |-> b]

INSUFFICIENT_ANSWER_PATTERNS ==
  << Gapped({<<"does", "not", "contain">>}, {<<"information">>}),
     Literal(<<"may", "need", "to", "refer", "to", "additional", "resources">>),
     Gapped({<<"not", "information">>, <<"no", "detailed", "information">>,
             <<"no", "specific", "information">>},
            {<<"available">>, <<"found">>, <<"provided">>}),
     Gapped({<<"cannot", "provide">>}, {<<"details">>, <<"information">>}),
     Gapped({<<"I", "don't", "have">>}, {<<"specific", "information">>}),
     Gapped({<<"The", "context">>}, {<<"doesn't", "mention">>}),
     Literal(<<"not", "mentioned", "in", "the", "context">>),
     Gapped({<<"no", "mention", "of">>}, {<<"in", "the", "provided", "context">>}) >>

\* variant: `.` matches a line break too
NoBreakDotAll(t, i, j) == TRUE

\* `.` matches no line break
NoBreak(t, i, j) == \A k \in i..j : t[k] # NL

\* re.search(pattern, answer, re.IGNORECASE)
PatternSearch(pat, t) ==
  IF ~pat.gap
  THEN \E a \in pat.pre : ContainsPhrase(t, a, TRUE)
  ELSE \E a \in pat.pre, b \in pat.post : \E i \in 1..Len(t), j \in 1..Len(t) :
          /\ PhraseAt(t, i, a, TRUE, FALSE, TRUE)
          /\ PhraseAt(t, j, b, FALSE, TRUE, TRUE)
          /\ j >= i + Len(a) + 1
          /\ NoBreak(t, i, j + Len(b) - 1)

\* variant: only the pattern at n is tried
InsufficientFromHead(patterns, n, answer) ==
  n <= Len(patterns) /\ PatternSearch(patterns[n], answer)

\* lines 456-459: the patterns are tried in order from the n-th, the first
\* match returns True
RECURSIVE InsufficientFrom(_, _, _)
InsufficientFrom(patterns, n, answer) ==
  IF n > Len(patterns) THEN FALSE
  ELSE IF PatternSearch(patterns[n], answer) THEN TRUE
  ELSE InsufficientFrom(patterns, n + 1, answer)

is_insufficient_answer(answer) ==
  InsufficientFrom(INSUFFICIENT_ANSWER_PATTERNS, 1, answer)

\* ------------------------------------------------------------------------
\* supervisor.py: the web escalation pipeline
\* ------------------------------------------------------------------------
\* search_web(query, num_results = 3)
num_results == 3

\* str(e) of an exception, as it appears inside a message
EXC == "str(e)"

MSG_NOT_FOUND == <<"I couldn't find additional information online.">>
MSG_NO_CONTENT == <<"I found some resources online, but couldn't extract useful content.">>
MSG_ONLINE_ERROR == <<"I encountered an error while processing online information:", EXC>>

\* search_web's reply when the request fails or is not a 200
SEARCH_ERROR == << [title |-> <<"Error">>, url |-> ""] >>

\* fetch_webpage_content's replies when the request fails
FETCH_FAILED == <<"Failed", "to fetch the webpage. Status code:", "404">>
FETCH_ERROR == <<"Error", "fetching webpage:", EXC>>

\* lines 436-438: the length kept of a page and the mark put after it
PageBudget == 10000
TRUNCATION_MARK == "... [text truncated]"

\* what requests.get and the cleaning of lines 421-434 give for a url: the
\* outcome of the request, the cleaned text and len(text)
Page(status, text, length) == [status |-> status, text |-> text, length |-> length]

\* lines 414-442: the text fetch_webpage_content returns and its length
fetch_webpage_content(page) ==
  IF page.status = "raises" THEN [text |-> FETCH_ERROR, length |-> 30]
  ELSE IF page.status # "200" THEN [text |-> FETCH_FAILED, length |-> 45]
  ELSE IF page.length > PageBudget
       THEN [text |-> page.text \o <<TRUNCATION_MARK>>,
             length |-> PageBudget + Len(TRUNCATION_MARK)]
       ELSE [text |-> page.text, length |-> page.length]

\* "Error" in search_results[0]["title"]
TitleHasError(results) == ContainsPhrase(results[1].title, <<"Error">>, FALSE)

\* content and not content.startswith("Error") and not content.startswith("Failed")
UsableContent(content) ==
  /\ content # <<>>
  /\ ~PhraseAt(content, 1, <<"Error">>, FALSE, TRUE, FALSE)
  /\ ~PhraseAt(content, 1, <<"Failed">>, FALSE, TRUE, FALSE)

\* lines 481-492: the pages fetched, in result order
RECURSIVE ContentPieces(_, _)
ContentPieces(results, fetch) ==
  IF results = <<>> THEN <<>>
  ELSE LET r == Head(results)
           rest == ContentPieces(Tail(results), fetch)
       IN  IF r.url # "" /\ UsableContent(fetch_webpage_content(fetch[r.url]).text)
           THEN <<[title |-> r.title, url |-> r.url,
                   content |-> fetch_webpage_content(fetch[r.url])]>> \o rest
           ELSE rest

\* lines 498-501: the context given to the completion service
Context(content_pieces) ==
  [k \in 1..Len(content_pieces) |->
     <<"Source:">> \o content_pieces[k].title \o <<content_pieces[k].url>>
       \o content_pieces[k].content.text]

\* the completion call of line 519 raising
RAISES == <<"(raises)">>

\* variant: an empty result list is not told from results without content
search_online_and_respond_unchecked(results, fetch, completion) ==
  IF results # <<>> /\ TitleHasError(results) THEN MSG_NOT_FOUND
  ELSE IF ContentPieces(results, fetch) = <<>> THEN MSG_NO_CONTENT
  ELSE IF completion = RAISES THEN MSG_ONLINE_ERROR
  ELSE completion

\* variant: the completion service is asked even when no page was kept
search_online_and_respond_unguarded(results, fetch, completion) ==
  IF results = <<>> \/ TitleHasError(results) THEN MSG_NOT_FOUND
  ELSE IF completion = RAISES THEN MSG_ONLINE_ERROR
  ELSE completion

\* the value search_online_and_respond returns; completion is the text of
\* the completion service, or RAISES
search_online_and_respond(results, fetch, completion) ==
  IF results = <<>> \/ TitleHasError(results) THEN MSG_NOT_FOUND
  ELSE IF ContentPieces(results, fetch) = <<>> THEN MSG_NO_CONTENT
  ELSE IF completion = RAISES THEN MSG_ONLINE_ERROR
  ELSE completion

\* lines 475-519: the calls search_online_and_respond makes: the search,
\* a fetch for every result that has a url, and the completion call when
\* some page had usable content
FetchCall(url) == "fetch_webpage_content " \o url

\* variant: a url whose fetch failed is fetched a second time
RECURSIVE FetchCallsRetrying(_, _)
FetchCallsRetrying(results, fetch) ==
  IF results = <<>> THEN <<>>
  ELSE LET url == Head(results).url
       IN  (IF url = "" THEN <<>>
            ELSE IF fetch[url].status = "200" THEN <<FetchCall(url)>>
            ELSE <<FetchCall(url), FetchCall(url)>>)
           \o FetchCallsRetrying(Tail(results), fetch)

\* lines 482-486: one fetch for each result that has a url, in the order
\* of the results
RECURSIVE FetchCalls(_, _)
FetchCalls(results, fetch) ==
  IF results = <<>> THEN <<>>
  ELSE (IF Head(results).url = "" THEN <<>> ELSE <<FetchCall(Head(results).url)>>)
       \o FetchCalls(Tail(results), fetch)

EscalationCalls(results, fetch) ==
  <<"search_web">>
  \o (IF results = <<>> \/ TitleHasError(results) THEN <<>>
      ELSE FetchCalls(results, fetch)
           \o (IF ContentPieces(results, fetch) = <<>> THEN <<>>
               ELSE <<"completion">>))

\* the progress lines search_online_and_respond and search_web print
RECURSIVE FetchProgress(_)
FetchProgress(results) ==
  IF results = <<>> THEN <<>>
  ELSE << <<"Fetching content from:">> \o Head(results).title >>
         \o FetchProgress(Tail(results))

EscalationProgress(q, results) ==
  << <<NL, "Searching online for more comprehensive information...">>,
     <<NL, "Searching the web for more information about:">> \o q >>
  \o (IF results = <<>> \/ TitleHasError(results) THEN <<>> ELSE FetchProgress(results))

\* ------------------------------------------------------------------------
\* supervisor.py: what route_query prints itself
\* ------------------------------------------------------------------------
Header(tag) == <<NL, "BloxMate " \o tag \o " agent:", NL>>
Apology(tag) == <<"I'm sorry, I couldn't retrieve " \o tag \o " information at the moment.">>
NO_INFO_MESSAGE == <<"I don't have enough information to answer that question based on my knowledge.">>
NO_COURSES_MESSAGE == <<"I couldn't find any relevant LinkedIn Learning courses for your query.">>
DEFAULT_MENU ==
  << <<NL, "BloxMate Assistant:", NL>>,
     <<"I'm not sure I understand your request. I can help with:">>,
     <<"- Information about Infoblox products and documentation">>,
     <<"- LinkedIn Learning course recommendations">>,
     <<"- Organization structure and employee information">>,
     <<"- Workplace communication guidance">>,
     <<"- Employee onboarding resources">>,
     <<NL, "Please try asking about one of these topics.">> >>

\* variant: the comparison with the threshold is strict
RoutingDecisionStrict(tag, conf) ==
  IF tag \in AgentTags /\ ~GreaterEq(THRESHOLD, conf) THEN tag ELSE "Default"

\* lines 108-330: the branch taken for a classification
RoutingDecision(tag, conf) ==
  IF tag \in AgentTags /\ GreaterEq(conf, THRESHOLD) THEN tag ELSE "Default"

\* the branches that redirect sys.stdout before they run their responder
CapturingBranches == {"product", "org_chart", "workplace_comms", "onboarding"}

\* ------------------------------------------------------------------------
\* Inputs: queries, replies of the services
\* ------------------------------------------------------------------------
\* user queries: plain, with a keyword of is_infoblox_query, and of two
\* lines with the text of an answer marker in the first
Queries ==
  { <<"hello", "there">>,
    <<"NIOS", "upgrade">>,
    <<"what", "is", RAG_MARKER, NL, "secret">>,
    <<"infoblox", GPT_MARKER, NL, "secret">> }

\* classifier replies of the completion service
ReplyIntDigits == {"0", "1", "7"}
ReplyFracDigits == {"0", "2", "4", "6"}
FracRuns == UNION { [1..n -> ReplyFracDigits] : n \in 1..MaxFracDigits }
ReplyAgentParts ==
  {<<>>, <<"AGENT:">>, <<"AGENT:", "billing">>} \cup { <<"AGENT:", t>> : t \in AgentTags }
ReplyConfParts ==
  {<<>>, <<"CONFIDENCE:">>, <<"CONFIDENCE:", "1">>, <<"CONFIDENCE:", ".", "5">>,
   <<"CONFIDENCE:", "1", "0", ".", "5">>, <<"CONFIDENCE:", "high">>}
  \cup { <<"CONFIDENCE:", d, ".">> \o f : d \in ReplyIntDigits, f \in FracRuns }
Replies ==
  { a \o <<"|">> \o c : a \in ReplyAgentParts, c \in ReplyConfParts }
  \cup { <<"AGENT:", "learning", "or", "AGENT:", "product", "|",
           "CONFIDENCE:", "0", ".", "9", "CONFIDENCE:", "0", ".", "1">> }

\* response.content of the completion service on the product path
Contents ==
  { <<"NIOS-X", "is", "a", "platform">>,
    <<"The", "document", "does", "not", "contain", "specific", "information">>,
    <<"It", "does", "not", "contain", NL, "specific", "information">>,
    <<"Sorry,", NL, "the", "answer", "is", "not", "mentioned", "in", "the", "context">>,
    <<>>,
    <<NL>> }

\* answers of the completion service in escalation
OnlineAnswers == { <<"Online:", "NIOS-X", "is", "a", "platform", "[1]">> }

\* results of the web search and pages of the fetch
ResultPool ==
  { [title |-> <<"Docs">>, url |-> "u1"],
    [title |-> <<"Error", "codes">>, url |-> "u2"],
    [title |-> <<"No title">>, url |-> ""] }
\* what the search request gives: a failure, or a page of result blocks
SEARCH_FAILS == << [title |-> <<"(request fails)">>, url |-> ""] >>
SearchPages ==
  {SEARCH_FAILS} \cup UNION { [1..n -> ResultPool] : n \in 0..(num_results + 1) }

\* lines 364-400: search_web keeps the first num_results blocks
search_web(page) ==
  IF page = SEARCH_FAILS THEN SEARCH_ERROR
  ELSE SubSeq(page, 1, IF Len(page) < num_results THEN Len(page) ELSE num_results)

SearchReturns == { search_web(page) : page \in SearchPages }
Urls == {"u1", "u2"}

\* pages: a request that raises, a 404, an empty page, a short page, a page
\* whose text begins with "Error", and pages of the budget and one above
Pages ==
  { Page("raises", <<>>, 0), Page("404", <<>>, 0), Page("200", <<>>, 0),
    Page("200", <<"page", "text">>, 9),
    Page("200", <<"Error", "codes", "explained">>, 21),
    Page("200", <<"long", "page">>, PageBudget),
    Page("200", <<"longer", "page">>, PageBudget + 1) }

\* ------------------------------------------------------------------------
\* vectorizer.py: the embedding pipeline
\* ------------------------------------------------------------------------
\* The input folder is a function from the paths of its files, in the order
\* os.walk yields them, to their contents. A content is identified by a
\* number, which is also the number of chunks the splitter cuts it into.
Paths == <<"a.pdf", "b.docx", "c.py">>
Supported == {"a.pdf", "b.docx"}

\* LocalVectorizer(batch_size=...), the number of chunks of one embedding call
batch_size == 2

\* compute_file_hash, lines 70-75: the SHA-256 digest of the content
compute_file_hash(content) == <<"sha256", content>>

\* variant: the key is the path alone
cache_key_by_path(path, content) == <<path>>

\* line 118: cache_key = f"{full_path}|{file_hash}"
cache_key(path, content) == <<path, "|", compute_file_hash(content)>>

\* lines 124-162: the documents a loader returns for a file, cleaned and
\* with their metadata
FileDocs(path, content) == << [source_url |-> path, content |-> content] >>

\* variant: the key of a loaded file is not kept
MarkCachedForgets(cache, key) == cache

\* line 163: self.cache[cache_key] = True
MarkCached(cache, key) == cache \cup {key}

\* what happens to a file in one pass: it loads, or hashing raises
\* (line 117), or its loader raises (lines 124-147)
FileOutcomes == {"ok", "hash", "extract"}

\* variant: the first failing file ends the pass
RECURSIVE LoadFromAborts(_, _, _, _)
LoadFromAborts(i, folder, outcome, acc) ==
  IF i > Len(Paths) THEN acc
  ELSE IF Paths[i] \notin DOMAIN folder THEN LoadFromAborts(i + 1, folder, outcome, acc)
  ELSE LET path == Paths[i]
           key == cache_key(path, folder[path])
       IN  IF outcome[path] = "hash"
              \/ (outcome[path] = "extract" /\ key \notin acc.cache /\ path \in Supported)
           THEN [acc EXCEPT !.errors = @ \cup {path}]
           ELSE IF key \in acc.cache
           THEN LoadFromAborts(i + 1, folder, outcome, [acc EXCEPT !.hits = @ \cup {path}])
           ELSE IF path \notin Supported
           THEN LoadFromAborts(i + 1, folder, outcome, acc)
           ELSE LoadFromAborts(i + 1, folder, outcome,
                  [acc EXCEPT !.docs = @ \o FileDocs(path, folder[path]),
                              !.cache = MarkCached(@, key),
                              !.loaded = @ \cup {path}])

\* load_local_documents, the loop of lines 111-166 from the i-th file on:
\* acc holds docs and self.cache, and which files were cache hits (lines
\* 120-122), were loaded (lines 162-163) or raised (lines 165-166)
RECURSIVE LoadFrom(_, _, _, _)
LoadFrom(i, folder, outcome, acc) ==
  IF i > Len(Paths) THEN acc
  ELSE IF Paths[i] \notin DOMAIN folder THEN LoadFrom(i + 1, folder, outcome, acc)
  ELSE LET path == Paths[i]
           key == cache_key(path, folder[path])
       IN  IF outcome[path] = "hash"
           THEN LoadFrom(i + 1, folder, outcome, [acc EXCEPT !.errors = @ \cup {path}])
           ELSE IF key \in acc.cache
           THEN LoadFrom(i + 1, folder, outcome, [acc EXCEPT !.hits = @ \cup {path}])
           ELSE IF path \notin Supported
           THEN LoadFrom(i + 1, folder, outcome, acc)
           ELSE IF outcome[path] = "extract"
           THEN LoadFrom(i + 1, folder, outcome, [acc EXCEPT !.errors = @ \cup {path}])
           ELSE LoadFrom(i + 1, folder, outcome,
                  [acc EXCEPT !.docs = @ \o FileDocs(path, folder[path]),
                              !.cache = MarkCached(@, key),
                              !.loaded = @ \cup {path}])

\* load_local_documents, lines 108-168, on an instance whose self.cache is
\* cache
load_local_documents(folder, cache, outcome) ==
  LoadFrom(1, folder, outcome,
           [docs |-> <<>>, cache |-> cache, hits |-> {}, loaded |-> {}, errors |-> {}])

\* lines 172-177: the splitter cuts every document into its chunks
RECURSIVE split_documents(_)
split_documents(documents) ==
  IF documents = <<>> THEN <<>>
  ELSE [k \in 1..Head(documents).content |->
          [source_url |-> Head(documents).source_url,
           content |-> <<Head(documents).content, k>>]]
       \o split_documents(Tail(documents))

\* lines 194-202: the row of a chunk and its embedding
Row(doc) ==
  [content |-> doc.content, source_url |-> doc.source_url,
   embedding |-> <<"embedding of", doc.content>>]
Rows(docs) == [k \in 1..Len(docs) |-> Row(docs[k])]

\* the values batch_start takes in the loop of line 185
BatchStarts(n) == {b \in 0..(n - 1) : b % batch_size = 0}

\* variant: the batch that follows a failed batch is given up too
RECURSIVE EmbedFromSkipsNext(_, _, _, _)
EmbedFromSkipsNext(batch_start, split, failing, acc) ==
  IF batch_start >= Len(split) THEN acc
  ELSE LET batch_end == batch_start + batch_size
           last == IF batch_end < Len(split) THEN batch_end ELSE Len(split)
           batch_docs == SubSeq(split, batch_start + 1, last)
       IN  IF batch_start \in failing
           THEN EmbedFromSkipsNext(batch_end + batch_size, split, failing,
                  [acc EXCEPT !.attempted = Append(@, batch_docs)])
           ELSE EmbedFromSkipsNext(batch_end, split, failing,
                  [data_list |-> acc.data_list \o Rows(batch_docs),
                   attempted |-> Append(acc.attempted, batch_docs)])

\* generate_embeddings_batch, the loop of lines 185-207 from batch_start
\* on; failing holds the batch starts whose embedding call raises, acc the
\* data_list and the batches handed to embed_documents so far
RECURSIVE EmbedFrom(_, _, _, _)
EmbedFrom(batch_start, split, failing, acc) ==
  IF batch_start >= Len(split) THEN acc
  ELSE LET batch_end == batch_start + batch_size
           last == IF batch_end < Len(split) THEN batch_end ELSE Len(split)
           batch_docs == SubSeq(split, batch_start + 1, last)
       IN  EmbedFrom(batch_end, split, failing,
             [data_list |-> IF batch_start \in failing THEN acc.data_list
                            ELSE acc.data_list \o Rows(batch_docs),
              attempted |-> Append(acc.attempted, batch_docs)])

\* generate_embeddings_batch, lines 170-209; lines 176-180 return [] when
\* the splitter raises
generate_embeddings_batch(documents, splits, failing) ==
  IF ~splits THEN [data_list |-> <<>>, attempted |-> <<>>]
  ELSE EmbedFrom(0, split_documents(documents), failing,
                 [data_list |-> <<>>, attempted |-> <<>>])

\* save_to_parquet, lines 211-215: the file that df.to_parquet leaves
save_to_parquet(data, output) == [exists |-> TRUE, rows |-> data]

\* LocalVectorizer(...).run(folder, output), lines 88 and 217-235, as one
\* step of a new instance: the store and the cache file it leaves; saved
\* tells whether to_parquet succeeds
RunResult(folder, persisted, output, outcome, splits, failing, saved) ==
  LET loaded == load_local_documents(folder, persisted, outcome)
      embedded == generate_embeddings_batch(loaded.docs, splits, failing)
  IN  IF loaded.docs = <<>> \/ embedded.data_list = <<>> \/ ~saved
      THEN [store |-> output, cache_file |-> persisted]
      ELSE [store |-> save_to_parquet(embedded.data_list, output),
            cache_file |-> loaded.cache]

\* variant: the index is built from the store at every call
load_cached_vectorstore_rebuilds(parquet, faiss) ==
  [exists |-> TRUE, rows |-> parquet.rows]

\* response.py, load_cached_vectorstore, lines 62-87: the index the call
\* returns and leaves at faiss_path
load_cached_vectorstore(parquet, faiss) ==
  IF faiss.exists THEN faiss ELSE [exists |-> TRUE, rows |-> parquet.rows]

\* ------------------------------------------------------------------------
\* State
\* ------------------------------------------------------------------------
VARIABLES
  pc,               \* position of the one query being served
  query,            \* the query passed to route_query
  faiss_index,      \* the file ./output/faiss_index
  store,            \* the file ./output/embeddings.parquet
  cache_file,       \* the cache keys in the file embedding_cache.json
  files,            \* the input folder of the embedding pipeline
  vec,              \* the LocalVectorizer instance and the position of its run
  run,              \* what the latest run of the pipeline did
  loads,            \* the calls response.py's entry point made of
                    \* load_cached_vectorstore
  reply,            \* `result` of classify_query: the classifier reply
  agent_type,       \* route_query's agent_type
  confidence,       \* route_query's confidence
  decision,         \* the branch of route_query that was taken
  sys_stdout,       \* the stream sys.stdout refers to
  out,              \* what was written to the caller's stream for this query
  captured_output,  \* contents of the StringIO of the branch
  rag_answer,       \* the answer extracted from the captured output
  online_answer,    \* the value search_online_and_respond returned
  calls,            \* the operations invoked for this query, in order
  retval,           \* what route_query returned
  exc,              \* the exception that left route_query
  ORG_CHART_DATA,   \* org_chart_bot's global: the directory as loaded
  requests,         \* the /api/chat requests being handled, one thread each
  streams           \* what was written to each stream of the api process

vars == <<pc, query, faiss_index, store, cache_file, files, vec, run, loads,
          reply, agent_type, confidence, decision,
          sys_stdout, out, captured_output, rag_answer, online_answer, calls,
          retval, exc, ORG_CHART_DATA, requests, streams>>

\* the state only org_chart_bot and the api process change
services == <<ORG_CHART_DATA, requests, streams>>

\* a file that does not exist, and a file that holds rows
NoFile == [exists |-> FALSE, rows |-> <<>>]
Written(rows) == [exists |-> TRUE, rows |-> rows]

\* os.path.exists(faiss_path), response.py line 63
faiss_exists == faiss_index.exists

\* the state only the embedding pipeline and direct callers of
\* load_cached_vectorstore change, and the files a query may touch
pipeline == <<files, vec, run, loads>>
artifacts == <<faiss_index, store, cache_file, pipeline>>

\* no LocalVectorizer instance, and no run
NoVectorizer == [pc |-> "none", cache |-> {}, documents |-> <<>>, embeddings |-> <<>>]
NoRun ==
  [status |-> "none", folder |-> <<>>, hits |-> {}, loaded |-> {}, errors |-> {},
   embed_calls |-> 0]
NoLoads ==
  [called |-> FALSE, read |-> FALSE, stale |-> FALSE, returned |-> NoFile,
   built |-> NoFile]

NoReply == <<"(no reply)">>
NoConf == Conf(0 - 1, 1)
Pending == [type |-> "pending"]
NoneValue == [type |-> "NoneType"]

\* api.py: the requests of the model, and a request that has not arrived
Requests == {1, 2}
NoRequest ==
  [pc |-> "idle", branch |-> "unset", old_stdout |-> "unset",
   route_old_stdout |-> "unset", response |-> Pending]

\* the streams of the api process: the stream sys.stdout is at start, the
\* StringIO of each chat call and the StringIO of each route_query call
ChatStream(i) == IF i = 1 THEN "chat_1" ELSE "chat_2"
RouteStream(i) == IF i = 1 THEN "route_1" ELSE "route_2"
Streams ==
  {"old_stdout"} \cup {ChatStream(i) : i \in Requests}
                \cup {RouteStream(i) : i \in Requests}

\* a fresh deployment: no store, no cache file, no index, no vectorizer
RouterInit ==
  /\ pc = "idle"
  /\ query = <<>>
  /\ faiss_index = NoFile
  /\ store = NoFile
  /\ cache_file = {}
  /\ vec = NoVectorizer
  /\ run = NoRun
  /\ loads = NoLoads
  /\ reply = NoReply
  /\ agent_type = "unset"
  /\ confidence = NoConf
  /\ decision = "unset"
  /\ sys_stdout = "old_stdout"
  /\ out = <<>>
  /\ captured_output = <<>>
  /\ rag_answer = <<>>
  /\ online_answer = <<>>
  /\ calls = <<>>
  /\ retval = Pending
  /\ exc = "none"
  /\ ORG_CHART_DATA = <<>>
  /\ requests = [i \in Requests |-> NoRequest]
  /\ streams = [s \in Streams |-> <<>>]

\* onboarding.generate_embeddings, line 124: the folder of onboarding.py
Init == RouterInit /\ files = [path \in {"b.docx"} |-> 1]

\* print(...) of each text of ts on whatever sys.stdout is now
Stdout(ts) ==
  IF sys_stdout = "old_stdout"
  THEN out' = EmitAll(out, ts) /\ UNCHANGED captured_output
  ELSE captured_output' = EmitAll(captured_output, ts) /\ UNCHANGED out

\* supervisor.main, lines 553-562: a query is read and route_query is called
Call(q) ==
  /\ pc = "idle"
  /\ pc' = "classify"
  /\ query' = q
  /\ UNCHANGED <<services, artifacts, reply, agent_type, confidence, decision, sys_stdout,
                 out, captured_output, rag_answer, online_answer, calls, retval, exc>>

\* classify_query, lines 71-92, the completion service replying r
Classify(r) ==
  /\ pc = "classify"
  /\ calls' = Append(calls, "classify_query")
  /\ reply' = r
  /\ LET classification == ParseClassification(r)
     IN  /\ agent_type' = classification.agent_type
         /\ confidence' = classification.confidence
  /\ pc' = "dispatch"
  /\ UNCHANGED <<services, query, artifacts, decision, sys_stdout, out, captured_output,
                 rag_answer, online_answer, retval, exc>>

\* classify_query, lines 71-78, the completion call raising: nothing
\* catches it in classify_query or at line 105 of route_query
ClassifyFails ==
  /\ pc = "classify"
  /\ calls' = Append(calls, "classify_query")
  /\ exc' = "completion_error"
  /\ pc' = "raised"
  /\ UNCHANGED <<services, query, artifacts, reply, agent_type, confidence, decision,
                 sys_stdout, out, captured_output, rag_answer, online_answer, retval>>

\* route_query, the if/elif chain of lines 108-330: the header of the branch
\* is printed and the capturing branches redirect sys.stdout
Dispatch ==
  /\ pc = "dispatch"
  /\ decision' = RoutingDecision(agent_type, confidence)
  /\ IF decision' = "Default"
     THEN UNCHANGED <<out, sys_stdout, captured_output>>
     ELSE /\ out' = Emit(out, Header(decision'))
          /\ captured_output' = <<>>
          /\ sys_stdout' = IF decision' \in CapturingBranches
                           THEN "captured_output" ELSE sys_stdout
  /\ pc' = "respond"
  /\ UNCHANGED <<services, query, artifacts, reply, agent_type, confidence, rag_answer,
                 online_answer, calls, retval, exc>>

\* lines 330-339: the capability menu
DefaultBranch ==
  /\ pc = "respond"
  /\ decision = "Default"
  /\ Stdout(DEFAULT_MENU)
  /\ retval' = NoneValue
  /\ pc' = "done"
  /\ UNCHANGED <<services, query, artifacts, reply, agent_type, confidence, decision,
                 sys_stdout, rag_answer, online_answer, calls, exc>>

\* what a responder prints lands on the stream sys.stdout refers to
OnCaptured(ts) ==
  IF sys_stdout = "captured_output" THEN EmitAll(captured_output, ts) ELSE captured_output
OnOut(ts) ==
  IF sys_stdout = "old_stdout" THEN EmitAll(out, ts) ELSE out

\* what the product responder prints when the completion service answers c:
\* answer_direct_gpt, or load_cached_vectorstore and run_rag_query
ProductPrints(q, indexed, c) ==
  IF is_infoblox_query(q)
  THEN <<DirectGptProlog(q)>> \o DirectGptAnswer(c)
  ELSE (IF indexed THEN LoadCachedLines ELSE LoadBuildLines)
       \o <<RagProlog(q)>> \o RagAnswer(c)

\* what it has printed when it raises: in loading the index (stage "load")
\* or in retrieval or the completion call (stage "answer")
ProductPrintsBefore(q, indexed, stage) ==
  IF is_infoblox_query(q) THEN <<DirectGptProlog(q)>>
  ELSE IF stage = "load" THEN (IF indexed THEN LoadCachedLines ELSE LoadBuildProlog)
  ELSE (IF indexed THEN LoadCachedLines ELSE LoadBuildLines) \o <<RagProlog(q)>>

\* lines 146-149: the text printed for the extracted answer
CleanAnswer(answer) ==
  IF Strip(answer) # <<>> THEN Strip(answer) ELSE NO_INFO_MESSAGE

\* variant: every extracted answer is escalated
AfterAnswerEscalates(answer) == "escalate"

\* variant: the extracted answer is never evaluated
AfterAnswerDone(answer) == "done"

\* where route_query goes after it has printed the extracted answer: line 152
AfterAnswer(answer) == IF answer # <<>> THEN "evaluate" ELSE "done"

\* lines 117-149: the product responder answers with content c; the answer
\* is extracted from the captured output and printed
ProductAnswers(c) ==
  /\ pc = "respond"
  /\ decision = "product"
  /\ LET printed == ProductPrints(query, faiss_exists, c)
         output == OnCaptured(printed)
         answer == ExtractAnswer(output)
     IN  /\ captured_output' = output
         /\ rag_answer' = answer
         /\ out' = Emit(OnOut(printed), CleanAnswer(answer))
         /\ pc' = AfterAnswer(answer)
         /\ retval' = IF AfterAnswer(answer) = "done" THEN NoneValue ELSE retval
  /\ is_infoblox_query(query) \/ faiss_exists \/ store.exists
  /\ faiss_index' = IF is_infoblox_query(query) THEN faiss_index
                    ELSE load_cached_vectorstore(store, faiss_index)
  /\ UNCHANGED <<services, store, cache_file, pipeline>>
  /\ sys_stdout' = "old_stdout"
  /\ calls' = Append(calls, "product")
  /\ reply' = NoReply
  /\ confidence' = NoConf
  /\ UNCHANGED <<query, agent_type, decision, online_answer, exc>>

\* variant: the handler restores sys.stdout and raises again
ExceptHandlerReraises(tag, stream, fallback) ==
  /\ sys_stdout' = IF tag \in CapturingBranches THEN "old_stdout" ELSE sys_stdout
  /\ out' = stream
  /\ pc' = "raised"
  /\ retval' = retval
  /\ exc' = "responder_error"

\* variant: the handler prints the apology and leaves sys.stdout as it is
ExceptHandlerKeepsCapture(tag, stream, fallback) ==
  /\ sys_stdout' = sys_stdout
  /\ out' = EmitAll(Emit(stream, Apology(tag)), fallback)
  /\ pc' = "done"
  /\ retval' = NoneValue
  /\ exc' = exc

\* the handler of a branch, lines 167-169 and alike: sys.stdout is restored
\* where the branch captures, and the apology of the branch is printed, then
\* the lines of the fallback of the branch, if it has one
ExceptHandler(tag, stream, fallback) ==
  /\ sys_stdout' = IF tag \in CapturingBranches THEN "old_stdout" ELSE sys_stdout
  /\ out' = EmitAll(Emit(stream, Apology(tag)), fallback)
  /\ pc' = "done"
  /\ retval' = NoneValue
  /\ exc' = exc

\* lines 117-128 and 167-169: the product responder raises
ProductRaises(stage) ==
  /\ pc = "respond"
  /\ decision = "product"
  /\ stage = "load" => ~is_infoblox_query(query)
  /\ LET printed == ProductPrintsBefore(query, faiss_exists, stage)
     IN  /\ captured_output' = OnCaptured(printed)
         /\ ExceptHandler("product", OnOut(printed), <<>>)
  /\ stage = "answer" => is_infoblox_query(query) \/ faiss_exists \/ store.exists
  /\ faiss_index' = IF stage = "answer" /\ ~is_infoblox_query(query)
                    THEN load_cached_vectorstore(store, faiss_index)
                    ELSE faiss_index
  /\ UNCHANGED <<services, store, cache_file, pipeline>>
  /\ calls' = Append(calls, "product")
  /\ reply' = NoReply
  /\ confidence' = NoConf
  /\ UNCHANGED <<query, agent_type, decision, rag_answer, online_answer>>

\* line 152: the extracted answer is evaluated; lines 154-155 when it is
\* insufficient
Evaluate ==
  /\ pc = "evaluate"
  /\ calls' = Append(calls, "is_insufficient_answer")
  /\ IF is_insufficient_answer(rag_answer)
     THEN /\ captured_output' = <<>>
          /\ sys_stdout' = "captured_output"
          /\ pc' = "escalate"
          /\ UNCHANGED retval
     ELSE /\ pc' = "done"
          /\ retval' = NoneValue
          /\ UNCHANGED <<captured_output, sys_stdout>>
  /\ UNCHANGED <<services, query, artifacts, reply, agent_type, confidence, decision, out,
                 rag_answer, online_answer, exc>>

\* lines 158-165: search_online_and_respond runs, sys.stdout is restored
\* and the returned text is printed
Escalate(results, fetch, completion) ==
  /\ pc = "escalate"
  /\ calls' = Append(calls, "search_online_and_respond")
               \o EscalationCalls(results, fetch)
  /\ LET progress == EscalationProgress(query, results)
         answer == search_online_and_respond(results, fetch, completion)
     IN  /\ captured_output' = OnCaptured(progress)
         /\ online_answer' = answer
         /\ out' = Emit(OnOut(progress), answer)
  /\ sys_stdout' = "old_stdout"
  /\ pc' = "done"
  /\ retval' = NoneValue
  /\ UNCHANGED <<services, query, artifacts, reply, agent_type, confidence, decision,
                 rag_answer, exc>>

\* ------------------------------------------------------------------------
\* The other responders
\* ------------------------------------------------------------------------
\* linkedin.search_linkedin_courses keeps the first three organic results
MaxCourses == 3

COURSE_TEXT == <<"course title", NL, "course link", NL, "description">>
COURSE_UNENHANCED == <<"- course title: course link", NL, "Could not enhance:", EXC>>
COURSE_RULE == <<"----------------------------------------">>

\* linkedin.process_courses and lines 183-186: one text and one rule per
\* course; enhanced[i] tells whether enhance_course_info succeeded
RECURSIVE CourseLines(_)
CourseLines(enhanced) ==
  IF enhanced = <<>> THEN <<>>
  ELSE <<IF Head(enhanced) THEN COURSE_TEXT ELSE COURSE_UNENHANCED, COURSE_RULE>>
       \o CourseLines(Tail(enhanced))

CourseLists == UNION { [1..n -> BOOLEAN] : n \in 0..MaxCourses }

\* lines 175-186, search_linkedin_courses returning courses
LearningCourses(enhanced) ==
  /\ pc = "respond"
  /\ decision = "learning"
  /\ calls' = Append(calls, "learning")
  /\ Stdout(CourseLines(enhanced))
  /\ pc' = "done"
  /\ retval' = NoneValue
  /\ reply' = NoReply
  /\ confidence' = NoConf
  /\ UNCHANGED <<services, query, artifacts, agent_type, decision, sys_stdout, rag_answer,
                 online_answer, exc>>

\* lines 179-180, search_linkedin_courses returning its error entry
LearningNoCourses ==
  /\ pc = "respond"
  /\ decision = "learning"
  /\ calls' = Append(calls, "learning")
  /\ Stdout(<<NO_COURSES_MESSAGE>>)
  /\ pc' = "done"
  /\ retval' = NoneValue
  /\ reply' = NoReply
  /\ confidence' = NoConf
  /\ UNCHANGED <<services, query, artifacts, agent_type, decision, sys_stdout, rag_answer,
                 online_answer, exc>>

\* lines 187-188, the search raising
LearningRaises ==
  /\ pc = "respond"
  /\ decision = "learning"
  /\ calls' = Append(calls, "learning")
  /\ ExceptHandler("learning", out, <<>>)
  /\ reply' = NoReply
  /\ confidence' = NoConf
  /\ UNCHANGED <<services, query, artifacts, agent_type, decision, captured_output,
                 rag_answer, online_answer>>

\* final_output of the agent runners and the advice of workplace_comms; the
\* second text matches an insufficiency pattern
AgentOutputs ==
  { <<"Jane Doe is an Engineer.">>,
    <<"I", "cannot", "provide", "those", "details">> }

\* what the responders of the capturing branches print while they run
ResponderProgress(tag) ==
  IF tag = "onboarding"
  THEN << <<"Successfully loaded content from", "pdf">>,
          <<"Advanced semantic search is not available. Falling back to simple search.">> >>
  ELSE <<>>

AgentBranches == {"org_chart", "workplace_comms", "onboarding"}

\* onboarding.generate_embeddings, lines 102-138, which route_query calls
\* at line 273: without a store, a LocalVectorizer runs on the folder of
\* onboarding.py and writes to the store; whatever it raises is caught
generate_embeddings(outcome, splits, failing, saved) ==
  IF store.exists THEN UNCHANGED <<store, cache_file>>
  ELSE LET left == RunResult(files, cache_file, store, outcome, splits, failing, saved)
       IN  store' = left.store /\ cache_file' = left.cache_file

\* the calls a responder makes that write files
ResponderWrites(tag) ==
  IF tag = "onboarding"
  THEN \E outcome \in [DOMAIN files -> FileOutcomes], splits \in BOOLEAN,
          saved \in BOOLEAN :
          LET docs == load_local_documents(files, cache_file, outcome).docs
          IN  \E failing \in SUBSET BatchStarts(Len(split_documents(docs))) :
                 generate_embeddings(outcome, splits, failing, saved)
  ELSE UNCHANGED <<store, cache_file>>

\* variant: the text of the responder is evaluated like a product answer
AgentAnswersEvaluated(tag, text) ==
  /\ pc = "respond"
  /\ decision = tag
  /\ calls' = Append(calls, tag)
  /\ ResponderWrites(tag)
  /\ captured_output' = OnCaptured(ResponderProgress(tag))
  /\ sys_stdout' = "old_stdout"
  /\ out' = Emit(OnOut(ResponderProgress(tag)), text)
  /\ rag_answer' = text
  /\ pc' = "evaluate"
  /\ reply' = NoReply
  /\ confidence' = NoConf
  /\ UNCHANGED <<services, query, faiss_index, pipeline, agent_type, decision, online_answer, retval, exc>>

\* lines 199-230, 245-253, 268-310: the responder returns text, sys.stdout
\* is restored and the text is printed
AgentAnswers(tag, text) ==
  /\ pc = "respond"
  /\ decision = tag
  /\ calls' = Append(calls, tag)
  /\ ResponderWrites(tag)
  /\ captured_output' = OnCaptured(ResponderProgress(tag))
  /\ sys_stdout' = "old_stdout"
  /\ out' = Emit(OnOut(ResponderProgress(tag)), text)
  /\ pc' = "done"
  /\ retval' = NoneValue
  /\ reply' = NoReply
  /\ confidence' = NoConf
  /\ UNCHANGED <<services, query, faiss_index, pipeline, agent_type, decision, rag_answer,
                 online_answer, exc>>

\* lines 232-234, 255-257: the responder raises
AgentRaises(tag) ==
  /\ pc = "respond"
  /\ decision = tag
  /\ calls' = Append(calls, tag)
  /\ captured_output' = OnCaptured(ResponderProgress(tag))
  /\ ExceptHandler(tag, OnOut(ResponderProgress(tag)), <<>>)
  /\ reply' = NoReply
  /\ confidence' = NoConf
  /\ UNCHANGED <<services, query, artifacts, agent_type, decision, rag_answer, online_answer>>

\* onboarding.simple_search returns at most five sections
MaxFallbackResults == 5

FALLBACK_INTRO == <<"Here's some onboarding information that might help:">>
FALLBACK_RESULT == <<NL, "- From", "source:", NL, "content">>
FALLBACK_NONE == <<"I couldn't find specific onboarding information for your query.">>

\* lines 317-328: what the fallback search prints after the apology; n is
\* the number of sections found, or -1 when simple_search raises
FallbackLines(n) ==
  IF n < 0 THEN <<>>
  ELSE IF n = 0 THEN <<FALLBACK_NONE>>
  ELSE <<FALLBACK_INTRO>> \o [i \in 1..n |-> FALLBACK_RESULT]

\* lines 312-328: the onboarding responder raises
OnboardingRaises(n) ==
  /\ pc = "respond"
  /\ decision = "onboarding"
  /\ calls' = Append(calls, "onboarding")
  /\ ResponderWrites("onboarding")
  /\ captured_output' = OnCaptured(ResponderProgress("onboarding"))
  /\ ExceptHandler("onboarding", OnOut(ResponderProgress("onboarding")), FallbackLines(n))
  /\ reply' = NoReply
  /\ confidence' = NoConf
  /\ UNCHANGED <<services, query, faiss_index, pipeline, agent_type, decision, rag_answer, online_answer>>

\* ------------------------------------------------------------------------
\* The caller: supervisor.main
\* ------------------------------------------------------------------------
\* lines 563-564: the exception that left route_query is printed
MainCatch ==
  /\ pc = "raised"
  /\ Stdout(<< <<NL, "Error:", exc>> >>)
  /\ pc' = "caught"
  /\ UNCHANGED <<services, query, artifacts, reply, agent_type, confidence, decision,
                 sys_stdout, rag_answer, online_answer, calls, retval, exc>>

\* line 551: the loop goes on to the next query
MainLoopNext ==
  /\ pc \in {"done", "caught"}
  /\ pc' = "idle"
  /\ query' = <<>>
  /\ reply' = NoReply
  /\ agent_type' = "unset"
  /\ confidence' = NoConf
  /\ decision' = "unset"
  /\ out' = <<>>
  /\ captured_output' = <<>>
  /\ rag_answer' = <<>>
  /\ online_answer' = <<>>
  /\ calls' = <<>>
  /\ retval' = Pending
  /\ exc' = "none"
  /\ UNCHANGED <<services, artifacts, sys_stdout>>

Next ==
  \/ \E q \in Queries : Call(q)
  \/ \E r \in Replies : Classify(r)
  \/ ClassifyFails
  \/ Dispatch
  \/ DefaultBranch
  \/ \E c \in Contents : ProductAnswers(c)
  \/ \E stage \in {"load", "answer"} : ProductRaises(stage)
  \/ Evaluate
  \/ \E results \in SearchReturns, fetch \in [Urls -> Pages],
        completion \in OnlineAnswers \cup {RAISES} :
        Escalate(results, fetch, completion)
  \/ \E enhanced \in CourseLists : LearningCourses(enhanced)
  \/ LearningNoCourses
  \/ LearningRaises
  \/ \E tag \in {"org_chart", "workplace_comms"} : AgentRaises(tag)
  \/ \E tag \in AgentBranches, text \in AgentOutputs : AgentAnswers(tag, text)
  \/ \E n \in (0 - 1)..MaxFallbackResults : OnboardingRaises(n)
  \/ MainCatch
  \/ MainLoopNext

Spec == Init /\ [][Next]_vars

\* the positions of route_query and of the loop of main around it
Positions ==
  {"idle", "classify", "dispatch", "respond", "evaluate", "escalate", "done",
   "raised", "caught"}

\* the call awaited at a position returns or raises: control leaves it
Moves == pc' \in Positions /\ pc' # pc

\* every step of Next changes pc and some step of Next is possible in every
\* state, so that fairness on Moves is fairness on Next
LiveSpec == Spec /\ WF_pc(Moves)

\* ------------------------------------------------------------------------
\* The embedding pipeline, run offline
\* ------------------------------------------------------------------------
\* the folder the pipeline is run on, and the change made to it between
\* runs: a.pdf gets a content it never had
PipelineFolder ==
  [path \in {"a.pdf", "b.docx", "c.py"} |->
     IF path = "a.pdf" THEN 3 ELSE IF path = "b.docx" THEN 2 ELSE 1]
Edits == {<<"a.pdf", 1>>}

PipelineInit == RouterInit /\ files = PipelineFolder

router ==
  <<pc, query, reply, agent_type, confidence, decision, sys_stdout, out,
    captured_output, rag_answer, online_answer, calls, retval, exc>>

\* LocalVectorizer.__init__, lines 81-88: self.cache = self._load_cache()
NewVectorizer ==
  /\ vec.pc = "none"
  /\ vec' = [NoVectorizer EXCEPT !.pc = "ready", !.cache = cache_file]
  /\ UNCHANGED <<services, router, faiss_index, store, cache_file, files, run, loads>>

\* variant: the cache file is written as soon as the files are loaded
CacheFileAfterLoadSaved(persisted, cache) == cache

\* lines 163 and 219: load_local_documents changes self.cache only, the
\* cache file is as it was
CacheFileAfterLoad(persisted, cache) == persisted

\* run, lines 217-223: the folder is loaded; with no documents run returns
RunLoad(outcome) ==
  /\ vec.pc = "ready"
  /\ LET loaded == load_local_documents(files, vec.cache, outcome)
     IN  /\ vec' = [pc |-> IF loaded.docs = <<>> THEN "ready" ELSE "loaded",
                    cache |-> loaded.cache,
                    documents |-> loaded.docs,
                    embeddings |-> <<>>]
         /\ run' = [status |-> IF loaded.docs = <<>> THEN "no_documents" ELSE "running",
                    folder |-> files, hits |-> loaded.hits,
                    loaded |-> loaded.loaded, errors |-> loaded.errors,
                    embed_calls |-> 0]
         /\ cache_file' = CacheFileAfterLoad(cache_file, loaded.cache)
  /\ UNCHANGED <<services, router, faiss_index, store, files, loads>>

\* run, lines 225-230: the documents are embedded; with no embeddings run
\* returns
RunEmbed(splits, failing) ==
  /\ vec.pc = "loaded"
  /\ LET embedded == generate_embeddings_batch(vec.documents, splits, failing)
     IN  /\ vec' = [vec EXCEPT !.pc = IF embedded.data_list = <<>> THEN "ready"
                                      ELSE "embedded",
                               !.documents = <<>>,
                               !.embeddings = embedded.data_list]
         /\ run' = [run EXCEPT !.status = IF embedded.data_list = <<>>
                                          THEN "no_embeddings" ELSE "running",
                               !.embed_calls = Len(embedded.attempted)]
  /\ UNCHANGED <<services, router, faiss_index, store, cache_file, files, loads>>

\* run, line 233: save_to_parquet writes the store, or raises and the
\* exception leaves run
RunSave(saved) ==
  /\ vec.pc = "embedded"
  /\ IF saved
     THEN /\ store' = save_to_parquet(vec.embeddings, store)
          /\ vec' = [vec EXCEPT !.pc = "saved"]
          /\ UNCHANGED run
     ELSE /\ vec' = [vec EXCEPT !.pc = "ready", !.embeddings = <<>>]
          /\ run' = [run EXCEPT !.status = "raised"]
          /\ UNCHANGED store
  /\ UNCHANGED <<services, router, faiss_index, cache_file, files, loads>>

\* run, line 234, and _save_cache, lines 96-98
RunSaveCache ==
  /\ vec.pc = "saved"
  /\ cache_file' = vec.cache
  /\ vec' = [vec EXCEPT !.pc = "ready", !.embeddings = <<>>]
  /\ run' = [run EXCEPT !.status = "completed"]
  /\ UNCHANGED <<services, router, faiss_index, store, files, loads>>

\* the process of the instance ends, at the end of the script or killed in
\* the middle of a run
ProcessExit ==
  /\ vec.pc # "none"
  /\ vec' = NoVectorizer
  /\ run' = IF run.status = "running" THEN [run EXCEPT !.status = "killed"] ELSE run
  /\ UNCHANGED <<services, router, faiss_index, store, cache_file, files, loads>>

\* between two runs somebody changes the content of a file of the folder
ChangeFile(path, content) ==
  /\ vec.pc \in {"none", "ready"}
  /\ files[path] # content
  /\ files' = [files EXCEPT ![path] = content]
  /\ UNCHANGED <<services, router, faiss_index, store, cache_file, vec, run, loads>>

\* response.py, line 124: load_cached_vectorstore is called. With an index
\* at faiss_path the call loads it; without one it reads the store and
\* builds, and when that raises (no store yet, or builds is false) nothing
\* is persisted. loads keeps whether a call was made before, whether this
\* call read the store, whether the store differed from the index it
\* returned, and the index as first built.
LoadCachedVectorstore(builds) ==
  /\ IF faiss_index.exists \/ (store.exists /\ builds)
     THEN /\ faiss_index' = load_cached_vectorstore(store, faiss_index)
          /\ loads' = [called |-> TRUE, read |-> ~faiss_index.exists,
                       stale |-> faiss_index'.rows # store.rows,
                       returned |-> faiss_index',
                       built |-> IF loads.built.exists THEN loads.built
                                 ELSE faiss_index']
     ELSE /\ loads' = [loads EXCEPT !.called = TRUE, !.read = TRUE,
                                    !.stale = FALSE, !.returned = NoFile]
          /\ UNCHANGED faiss_index
  /\ UNCHANGED <<services, router, store, cache_file, files, vec, run>>

\* the script of lines 239-247 from start to end: a new instance runs on
\* the folder
PipelineRun(outcome, splits, failing, saved) ==
  /\ LET left == RunResult(files, cache_file, store, outcome, splits, failing, saved)
     IN  store' = left.store /\ cache_file' = left.cache_file
  /\ UNCHANGED <<services, router, faiss_index, files, vec, run, loads>>

\* calls of load_cached_vectorstore between runs of the pipeline
IndexNext ==
  \/ \E builds \in BOOLEAN : LoadCachedVectorstore(builds)
  \/ \E outcome \in [DOMAIN files -> FileOutcomes], splits \in BOOLEAN,
        saved \in BOOLEAN :
        LET docs == load_local_documents(files, cache_file, outcome).docs
        IN  \E failing \in SUBSET BatchStarts(Len(split_documents(docs))) :
               PipelineRun(outcome, splits, failing, saved)
  \/ \E edit \in Edits : ChangeFile(edit[1], edit[2])

IndexSpec == PipelineInit /\ [][IndexNext]_vars

PipelineNext ==
  \/ NewVectorizer
  \/ \E outcome \in [DOMAIN files -> FileOutcomes] : RunLoad(outcome)
  \/ \E splits \in BOOLEAN,
        failing \in SUBSET BatchStarts(Len(split_documents(vec.documents))) :
        RunEmbed(splits, failing)
  \/ \E saved \in BOOLEAN : RunSave(saved)
  \/ RunSaveCache
  \/ ProcessExit
  \/ \E edit \in Edits : ChangeFile(edit[1], edit[2])

PipelineSpec == PipelineInit /\ [][PipelineNext]_vars

\* ------------------------------------------------------------------------
\* supervisor.py: is_insufficient_answer called on its own
\* ------------------------------------------------------------------------
\* the longest answer text, in words and line breaks
MaxAnswerWords == 6

\* parts of answer texts: plain, hedging phrases whole and in halves, and a
\* hedging phrase in other letter case
AnswerParts ==
  { <<"NIOS-X", "works">>,
    <<"does", "not", "contain">>,
    <<"any", "information">>,
    <<"no", "specific", "information">>,
    <<"available">>,
    <<"is", "available">>,
    <<"not", "mentioned">>,
    <<"in", "the", "context">>,
    <<"Not", "Mentioned", "In", "The", "Context">> }

EvaluatorInit == RouterInit /\ files = [path \in {"b.docx"} |-> 1]

\* the answer grows by a text on the same line
AddText(text) ==
  /\ Len(rag_answer) + Len(text) <= MaxAnswerWords
  /\ rag_answer' = rag_answer \o text
  /\ retval' = Pending
  /\ UNCHANGED <<services, pc, query, artifacts, reply, agent_type, confidence, decision,
                 sys_stdout, out, captured_output, online_answer, calls, exc>>

\* the answer grows by a text on a new line
AddLine(text) ==
  /\ rag_answer # <<>>
  /\ Len(rag_answer) + 1 + Len(text) <= MaxAnswerWords
  /\ rag_answer' = rag_answer \o <<NL>> \o text
  /\ retval' = Pending
  /\ UNCHANGED <<services, pc, query, artifacts, reply, agent_type, confidence, decision,
                 sys_stdout, out, captured_output, online_answer, calls, exc>>

\* lines 444-459: is_insufficient_answer(answer) returns
IsInsufficientAnswer ==
  /\ retval = Pending
  /\ retval' = [type |-> "bool", value |-> is_insufficient_answer(rag_answer)]
  /\ UNCHANGED <<services, pc, query, artifacts, reply, agent_type, confidence, decision,
                 sys_stdout, out, captured_output, rag_answer, online_answer,
                 calls, exc>>

EvaluatorNext ==
  \/ \E text \in AnswerParts : AddText(text)
  \/ \E text \in AnswerParts : AddLine(text)
  \/ IsInsufficientAnswer

EvaluatorSpec == EvaluatorInit /\ [][EvaluatorNext]_vars

\* ------------------------------------------------------------------------
\* onboarding.py: the ranked searches
\* ------------------------------------------------------------------------
\* the sections simple_search scores: day1, week1, month1, tools, teams and
\* training
Sections == 6

\* search_documents(query, top_k = 5)
DefaultTopK == 5

\* the chunks of the onboarding documents
MaxRows == 3

\* similarities of the rows with the query, and the numbers of query terms
\* found in the sections
SimilarityScores == {1, 2}
SectionScores == [1..Sections -> 0..2]

Result(row, score) == [row |-> row, score |-> score]

\* results.sort(key=lambda x: x["score"], reverse=True): a stable sort, the
\* results of equal score keep their order
RECURSIVE InsertByScore(_, _)
InsertByScore(sorted, r) ==
  IF sorted = <<>> THEN <<r>>
  ELSE IF Head(sorted).score >= r.score
       THEN <<Head(sorted)>> \o InsertByScore(Tail(sorted), r)
       ELSE <<r>> \o sorted

RECURSIVE SortByScore(_, _)
SortByScore(results, sorted) ==
  IF results = <<>> THEN sorted
  ELSE SortByScore(Tail(results), InsertByScore(sorted, Head(results)))

\* lines 224-259: the sections with a positive score, best first, five at most
simple_search(scores) ==
  LET results == SelectSeq([k \in 1..Len(scores) |-> Result(k, scores[k])],
                           LAMBDA r : r.score > 0)
      sorted == SortByScore(results, <<>>)
  IN  SubSeq(sorted, 1, IF Len(sorted) < MaxFallbackResults THEN Len(sorted)
                        ELSE MaxFallbackResults)

\* np.argsort(similarities): the indices in ascending order of similarity;
\* the default sort is not stable, equal similarities come in any order
ArgSorts(similarities) ==
  {order \in [1..Len(similarities) -> 1..Len(similarities)] :
     /\ \A i, j \in 1..Len(similarities) : i # j => order[i] # order[j]
     /\ \A i, j \in 1..Len(similarities) :
           i < j => similarities[order[i]] <= similarities[order[j]]}

\* lines 191-208: the last top_k indices of the argsort, read backwards
search_documents(similarities, top_k, order) ==
  LET n == Len(order)
      first == IF top_k >= n THEN 1 ELSE n - top_k + 1
      top_indices == [i \in 1..(n - first + 1) |-> order[n + 1 - i]]
  IN  [i \in 1..Len(top_indices) |->
         Result(top_indices[i], similarities[top_indices[i]])]

\* what a search returns, with the search that ranked it and its limit
Results(by, k, value) == [type |-> "results", by |-> by, k |-> k, value |-> value]

SearchInit == RouterInit /\ files = [path \in {"b.docx"} |-> MaxRows]

\* lines 102-138: generate_embeddings before the first search
GenerateEmbeddings ==
  /\ retval = Pending
  /\ \E outcome \in [DOMAIN files -> FileOutcomes], splits \in BOOLEAN,
        saved \in BOOLEAN :
        LET docs == load_local_documents(files, cache_file, outcome).docs
        IN  \E failing \in SUBSET BatchStarts(Len(split_documents(docs))) :
               generate_embeddings(outcome, splits, failing, saved)
  /\ UNCHANGED <<services, router, faiss_index, files, vec, run, loads>>

\* lines 177-208: search_documents with the embeddings loaded
SearchDocuments(top_k) ==
  /\ retval = Pending
  /\ store.exists
  /\ \E similarities \in [1..Len(store.rows) -> SimilarityScores] :
        \E order \in ArgSorts(similarities) :
           retval' = Results("search_documents", top_k,
                             search_documents(similarities, top_k, order))
  /\ UNCHANGED <<services, pc, query, artifacts, reply, agent_type, confidence, decision,
                 sys_stdout, out, captured_output, rag_answer, online_answer,
                 calls, exc>>

\* simple_search, called from a tool or by search_documents when it has no
\* embeddings or fails (lines 175, 182, 206, 212)
SimpleSearch(scores) ==
  /\ retval = Pending
  /\ retval' = Results("simple_search", MaxFallbackResults, simple_search(scores))
  /\ UNCHANGED <<services, pc, query, artifacts, reply, agent_type, confidence, decision,
                 sys_stdout, out, captured_output, rag_answer, online_answer,
                 calls, exc>>

SearchNext ==
  \/ GenerateEmbeddings
  \/ \E top_k \in (1..MaxRows) \cup {DefaultTopK} : SearchDocuments(top_k)
  \/ \E scores \in SectionScores : SimpleSearch(scores)

SearchSpec == SearchInit /\ [][SearchNext]_vars

\* ------------------------------------------------------------------------
\* org_chart_bot.py: the directory and lookup_employee
\* ------------------------------------------------------------------------
\* the most rows of org_chart.csv
MaxEmployees == 2

\* a field csv.DictReader leaves None: the row is shorter than the header
MISSING == "None"

EmployeeNames == {"Jane Doe", "jane doe", "John Smith"}
Titles == {"Engineer", "Director"}
Managers == {"", "John Smith"}

\* the rows csv.DictReader yields for org_chart.csv
CsvRows == [name : EmployeeNames \cup {MISSING}, title : Titles, manager : Managers]
OrgCharts == UNION { [1..n -> CsvRows] : n \in 0..MaxEmployees }

\* the names lookup_employee is called with
LookupNames == {"Jane Doe", "JANE DOE", "John Smith", "Jane", "J", "Ann Lee"}

\* a dict is a sequence of items in insertion order, with distinct keys
DictKeys(data) == { data[i].key : i \in 1..Len(data) }
DictGet(data, key) == data[CHOOSE i \in 1..Len(data) : data[i].key = key].value

\* data[key] = value: an existing key keeps its place
DictSet(data, key, value) ==
  IF key \in DictKeys(data)
  THEN [i \in 1..Len(data) |->
          IF data[i].key = key THEN [key |-> key, value |-> value] ELSE data[i]]
  ELSE Append(data, [key |-> key, value |-> value])

\* lines 32-37: the loop over the rows
RECURSIVE LoadRows(_, _)
LoadRows(rows, data) ==
  IF rows = <<>> THEN data
  ELSE LoadRows(Tail(rows), DictSet(data, Lower(Head(rows).name), Head(rows)))

\* load_org_chart, lines 28-42: whatever is raised, by open() or by .lower()
\* on a name that is None, leaves an empty directory
load_org_chart(readable, rows) ==
  IF ~readable \/ \E i \in 1..Len(rows) : rows[i].name = MISSING
  THEN <<>>
  ELSE LoadRows(rows, <<>>)

\* `a in b` for two lower-cased names of the vocabulary
NameIn(a, b) ==
  \/ a = b
  \/ a = "jane" /\ b = "jane doe"
  \/ a = "j" /\ b \in {"jane doe", "john smith"}

\* lines 157-166 and 176-185: title and manager of one employee
EmployeeResponse(data, employee) ==
  <<employee.name, "has the job title:", employee.title, NL>>
  \o (IF employee.manager # ""
      THEN LET key == Lower(employee.manager)
               manager_title == IF key \in DictKeys(data)
                                THEN DictGet(data, key).title
                                ELSE "Unknown Title"
           IN  <<"Their manager is", employee.manager, "(", manager_title, ")">>
      ELSE <<"They do not have a manager (top of organization)">>)

\* variant: the name is looked up as it was typed
lookup_employee_cased(data, name) ==
  IF name \in DictKeys(data) THEN EmployeeResponse(data, DictGet(data, name))
  ELSE <<"Could not find anyone named", name, "in the organization chart.">>

\* lookup_employee, lines 150-191
lookup_employee(data, name) ==
  LET name_lower == Lower(name)
      partial_matches ==
        SelectSeq([i \in 1..Len(data) |-> data[i]],
                  LAMBDA item : NameIn(name_lower, item.key))
  IN  IF name_lower \in DictKeys(data)
      THEN EmployeeResponse(data, DictGet(data, name_lower))
      ELSE IF Len(partial_matches) = 1
      THEN EmployeeResponse(data, partial_matches[1].value)
      ELSE IF Len(partial_matches) > 1
      THEN <<"Found multiple people matching", name, ":">>
           \o [i \in 1..Len(partial_matches) |-> partial_matches[i].value.name]
           \o <<"Please specify which one you're looking for.">>
      ELSE <<"Could not find anyone named", name, "in the organization chart.">>

OrgChartInit == RouterInit /\ files = [path \in {"b.docx"} |-> 1]

\* supervisor.py lines 37-38: SupervisorAgent.__init__ loads the directory
LoadOrgChart(readable, rows) ==
  /\ pc = "idle"
  /\ ORG_CHART_DATA' = load_org_chart(readable, rows)
  /\ pc' = "loaded"
  /\ UNCHANGED <<query, artifacts, requests, streams, reply, agent_type,
                 confidence, decision, sys_stdout, out, captured_output,
                 rag_answer, online_answer, calls, retval, exc>>

\* the agent runner calls the tool lookup_employee(name)
LookupEmployee(name) ==
  /\ pc = "loaded"
  /\ retval = Pending
  /\ query' = <<name>>
  /\ retval' = [type |-> "str", value |-> lookup_employee(ORG_CHART_DATA, name)]
  /\ UNCHANGED <<pc, ORG_CHART_DATA, artifacts, requests, streams, reply,
                 agent_type, confidence, decision, sys_stdout, out,
                 captured_output, rag_answer, online_answer, calls, exc>>

OrgChartNext ==
  \/ \E readable \in BOOLEAN, rows \in OrgCharts : LoadOrgChart(readable, rows)
  \/ \E name \in LookupNames : LookupEmployee(name)

OrgChartSpec == OrgChartInit /\ [][OrgChartNext]_vars

\* ------------------------------------------------------------------------
\* api.py: the /api/chat handler, one thread for each request
\* ------------------------------------------------------------------------
\* what the api process leaves alone
served ==
  <<pc, query, artifacts, ORG_CHART_DATA, reply, agent_type, confidence,
    decision, out, captured_output, rag_answer, online_answer, calls, retval,
    exc>>

ApiInit == RouterInit /\ files = [path \in {"b.docx"} |-> 1]

\* the branches of route_query a request may take: one that prints on
\* sys.stdout only and one that redirects it
ApiBranches == {"Default", "onboarding"}

\* print(text) in the thread of request i: the text of request i lands on
\* the stream sys.stdout refers to at that moment
Printed(i, text) == [streams EXCEPT ![sys_stdout] = Append(@, <<i, text>>)]

\* the request moves on to position p
At(i, p) == [requests EXCEPT ![i].pc = p]

\* lines 25-29: a request arrives; without a message it is answered at once
ChatArrives(i, has_message) ==
  /\ requests[i].pc = "idle"
  /\ requests' =
       IF has_message THEN At(i, "chat_save")
       ELSE [requests EXCEPT ![i].pc = "responded",
                             ![i].response = [status |-> 400, success |-> FALSE,
                                              message |-> <<>>]]
  /\ UNCHANGED <<served, sys_stdout, streams>>

\* line 35: old_stdout = sys.stdout
ChatSave(i) ==
  /\ requests[i].pc = "chat_save"
  /\ requests' = [requests EXCEPT ![i].pc = "chat_redirect",
                                  ![i].old_stdout = sys_stdout]
  /\ UNCHANGED <<served, sys_stdout, streams>>

\* lines 36-37: sys.stdout = captured_output
ChatRedirect(i) ==
  /\ requests[i].pc = "chat_redirect"
  /\ sys_stdout' = ChatStream(i)
  /\ requests' = At(i, "classify")
  /\ UNCHANGED <<served, streams>>

\* line 40 and supervisor.py line 105: the classifier replies and
\* route_query takes a branch
RouteClassify(i, branch) ==
  /\ requests[i].pc = "classify"
  /\ requests' = [requests EXCEPT ![i].pc = "header", ![i].branch = branch]
  /\ UNCHANGED <<served, sys_stdout, streams>>

\* supervisor.py line 105: the completion call raises and the exception
\* leaves route_query
RouteClassifyFails(i) ==
  /\ requests[i].pc = "classify"
  /\ requests' = At(i, "chat_except")
  /\ UNCHANGED <<served, sys_stdout, streams>>

\* supervisor.py lines 330-339: the capability menu is printed
RouteMenu(i) ==
  /\ requests[i].pc = "header"
  /\ requests[i].branch = "Default"
  /\ streams' = Printed(i, "menu")
  /\ requests' = At(i, "chat_restore")
  /\ UNCHANGED <<served, sys_stdout>>

\* supervisor.py line 261: the header of the branch is printed
RouteHeader(i) ==
  /\ requests[i].pc = "header"
  /\ requests[i].branch = "onboarding"
  /\ streams' = Printed(i, "header")
  /\ requests' = At(i, "route_save")
  /\ UNCHANGED <<served, sys_stdout>>

\* supervisor.py line 264: old_stdout = sys.stdout
RouteSave(i) ==
  /\ requests[i].pc = "route_save"
  /\ requests' = [requests EXCEPT ![i].pc = "route_redirect",
                                  ![i].route_old_stdout = sys_stdout]
  /\ UNCHANGED <<served, sys_stdout, streams>>

\* supervisor.py lines 265-266: sys.stdout = captured_output
RouteRedirect(i) ==
  /\ requests[i].pc = "route_redirect"
  /\ sys_stdout' = RouteStream(i)
  /\ requests' = At(i, "responder")
  /\ UNCHANGED <<served, streams>>

\* supervisor.py lines 268-304: the responder prints its progress and
\* returns, or raises
RouteResponder(i, raises) ==
  /\ requests[i].pc = "responder"
  /\ streams' = Printed(i, "progress")
  /\ requests' = At(i, IF raises THEN "route_handler" ELSE "route_restore")
  /\ UNCHANGED <<served, sys_stdout>>

\* supervisor.py line 307: sys.stdout = old_stdout
RouteRestore(i) ==
  /\ requests[i].pc = "route_restore"
  /\ sys_stdout' = requests[i].route_old_stdout
  /\ requests' = At(i, "route_print")
  /\ UNCHANGED <<served, streams>>

\* supervisor.py line 310: print(result.final_output)
RoutePrint(i) ==
  /\ requests[i].pc = "route_print"
  /\ streams' = Printed(i, "answer")
  /\ requests' = At(i, "chat_restore")
  /\ UNCHANGED <<served, sys_stdout>>

\* supervisor.py lines 312-328: the handler restores sys.stdout and prints
\* the apology and what the fallback search found
RouteHandler(i) ==
  /\ requests[i].pc = "route_handler"
  /\ sys_stdout' = requests[i].route_old_stdout
  /\ streams' = [streams EXCEPT ![sys_stdout'] = Append(@, <<i, "apology">>)]
  /\ requests' = At(i, "chat_restore")
  /\ UNCHANGED served

\* line 43: sys.stdout = old_stdout
ChatRestore(i) ==
  /\ requests[i].pc = "chat_restore"
  /\ sys_stdout' = requests[i].old_stdout
  /\ requests' = At(i, "chat_respond")
  /\ UNCHANGED <<served, streams>>

\* lines 44-50: the response carries what the StringIO of the request holds
ChatRespond(i) ==
  /\ requests[i].pc = "chat_respond"
  /\ requests' = [requests EXCEPT ![i].pc = "responded",
                                  ![i].response = [status |-> 200, success |-> TRUE,
                                                   message |-> streams[ChatStream(i)]]]
  /\ UNCHANGED <<served, sys_stdout, streams>>

\* lines 51-55: the exception of route_query becomes the 500 response
ChatExcept(i) ==
  /\ requests[i].pc = "chat_except"
  /\ requests' = [requests EXCEPT ![i].pc = "responded",
                                  ![i].response = [status |-> 500, success |-> FALSE,
                                                   message |-> <<>>]]
  /\ UNCHANGED <<served, sys_stdout, streams>>

ApiNext ==
  \E i \in Requests :
    \/ \E has_message \in BOOLEAN : ChatArrives(i, has_message)
    \/ ChatSave(i)
    \/ ChatRedirect(i)
    \/ \E branch \in ApiBranches : RouteClassify(i, branch)
    \/ RouteClassifyFails(i)
    \/ RouteMenu(i)
    \/ RouteHeader(i)
    \/ RouteSave(i)
    \/ RouteRedirect(i)
    \/ \E raises \in BOOLEAN : RouteResponder(i, raises)
    \/ RouteRestore(i)
    \/ RoutePrint(i)
    \/ RouteHandler(i)
    \/ ChatRestore(i)
    \/ ChatRespond(i)
    \/ ChatExcept(i)

ApiSpec == ApiInit /\ [][ApiNext]_vars

\* ------------------------------------------------------------------------
\* Properties
\* ------------------------------------------------------------------------
Invoked(op) == \E k \in 1..Len(calls) : calls[k] = op
TimesInvoked(op) == Cardinality({k \in 1..Len(calls) : calls[k] = op})
Responders == AgentTags
RespondersInvoked == {k \in 1..Len(calls) : calls[k] \in Responders}
MenuOnly == EmitAll(<<>>, DEFAULT_MENU)

\* C1: for every classification, route_query takes exactly one branch: the
\* responder of the classified tag runs if and only if the confidence is at
\* least 0.6 (0.6 itself dispatches), otherwise the capability menu is
\* printed and no responder runs; the decision is never unset.
DispatchIffConfident ==
  [][ (pc = "respond" /\ pc' # "respond") =>
        LET confident == confidence.num * 10 >= 6 * confidence.den
        IN  /\ decision \in AgentTags \cup {"Default"}
            /\ confident => /\ decision = agent_type
                            /\ calls' = Append(calls, agent_type)
            /\ ~confident => /\ decision = "Default"
                             /\ calls' = calls
                             /\ out' = MenuOnly
                             /\ pc' = "done" ]_vars

\* the reply AGENT:onboarding|CONFIDENCE:0.42 has ended in the menu, and a
\* reply with confidence 0.6 has dispatched
WitnessLowConfidence ==
  /\ pc = "done"
  /\ reply = <<"AGENT:", "onboarding", "|", "CONFIDENCE:", "0", ".", "4", "2">>
  /\ decision = "Default"
  /\ ~Invoked("onboarding")
  /\ out = MenuOnly

\* C2: a reply without a recognisable AGENT token or without a recognisable
\* CONFIDENCE token is classified (product, 0.5), and classify_query does
\* not fail on it.
DefaultOnMissingToken ==
  (reply # NoReply /\ ~(HasAgentMatch(reply) /\ HasConfMatch(reply))) =>
      /\ agent_type = "product"
      /\ confidence = Conf(5, 10)
      /\ exc = "none"
      /\ pc \in {"dispatch", "respond", "done"}

\* a reply that names the learning agent and no confidence was classified
WitnessMissingConfidence ==
  /\ pc = "dispatch"
  /\ reply = <<"AGENT:", "learning", "|", "CONFIDENCE:", "high">>
  /\ agent_type = "product"
  /\ confidence = Conf(5, 10)

\* C3: every classification has a confidence within [0,1].
ConfidenceInUnitInterval ==
  agent_type # "unset" /\ confidence # NoConf => InUnitInterval(confidence)

\* C4: when the classifier reply cannot be parsed, route_query completes
\* without an exception, runs no responder and prints the capability menu.
UnparsedEndsInMenu ==
  (reply # NoReply /\ ~(HasAgentMatch(reply) /\ HasConfMatch(reply))) =>
      /\ pc \in {"dispatch", "respond", "done"}
      /\ exc = "none"
      /\ RespondersInvoked = {}
      /\ pc \in {"respond", "done"} => decision = "Default"
      /\ pc = "done" => out = MenuOnly /\ retval # Pending

\* route_query is done with a reply that has no token at all
WitnessUnparsedDone ==
  /\ pc = "done"
  /\ reply = <<"|">>
  /\ decision = "Default"
  /\ out = MenuOnly

\* the step in which the responder of a branch raises
RaisingStep(tag) ==
  CASE tag = "product" -> \E stage \in {"load", "answer"} : ProductRaises(stage)
    [] tag = "learning" -> LearningRaises
    [] tag = "onboarding" -> \E n \in (0 - 1)..MaxFallbackResults : OnboardingRaises(n)
    [] OTHER -> AgentRaises(tag)

ClassifierFailureConverted ==
  ~(pc = "raised" /\ exc = "completion_error")

\* C7: on the product path, when the extracted answer matches an
\* insufficiency pattern the escalation runs exactly once, after the local
\* answer was printed, and the text it returns is printed last; when no
\* pattern matches the escalation does not run.
EscalatesIffInsufficient ==
  /\ pc = "escalate" =>
        /\ is_insufficient_answer(rag_answer)
        /\ out = Emit(Emit(<<>>, Header("product")), Strip(rag_answer))
  /\ (pc = "done" /\ decision = "product") =>
        IF is_insufficient_answer(rag_answer)
        THEN /\ Len(calls) >= 4
             /\ SubSeq(calls, 1, 4) =
                  <<"classify_query", "product", "is_insufficient_answer",
                    "search_online_and_respond">>
             /\ out = Emit(Emit(Emit(<<>>, Header("product")), Strip(rag_answer)),
                           online_answer)
        ELSE ~Invoked("search_online_and_respond")
  /\ (pc = "done" /\ ContainsPhrase(rag_answer,
          <<"does", "not", "contain", "specific", "information">>, TRUE)) =>
        TimesInvoked("search_online_and_respond") = 1

\* an answer with "does not contain specific information" was escalated
WitnessEscalated ==
  /\ pc = "done"
  /\ ContainsPhrase(rag_answer, <<"does", "not", "contain", "specific", "information">>, TRUE)
  /\ TimesInvoked("search_online_and_respond") = 1
  /\ online_answer \in OnlineAnswers
  /\ out = Emit(Emit(Emit(<<>>, Header("product")), Strip(rag_answer)), online_answer)

\* C8: the evaluator and the escalation run on the product branch only.
EvaluationOnlyForProduct ==
  decision \in (AgentTags \ {"product"}) \cup {"Default"} =>
      /\ ~Invoked("is_insufficient_answer")
      /\ ~Invoked("search_online_and_respond")
      /\ pc \notin {"evaluate", "escalate"}

\* the organization responder has answered with a text that matches an
\* insufficiency pattern, and route_query is done without evaluating it
WitnessUnevaluatedAgentText ==
  /\ pc = "done"
  /\ decision = "org_chart"
  /\ calls = <<"classify_query", "org_chart">>
  /\ \E text \in AgentOutputs :
        /\ is_insufficient_answer(text)
        /\ out = Emit(Emit(<<>>, Header("org_chart")), text)

RangeOf(t) == {t[k] : k \in 1..Len(t)}
WordsOf(ts) == UNION {RangeOf(ts[k]) : k \in 1..Len(ts)}

\* the words of the progress text of the product responder and of the
\* escalation for the query being served
ProgressWords ==
  (UNION {WordsOf(ProductPrintsBefore(query, indexed, "answer")) : indexed \in BOOLEAN}
   \cup UNION {WordsOf(EscalationProgress(query, results)) : results \in SearchReturns})
  \ {NL}

\* C9: no progress text of the product responder or of the escalation
\* appears in what route_query writes to its caller's stream.
NoProgressInOutput ==
  decision = "product" => RangeOf(out) \cap ProgressWords = {}

\* C10: route_query returns the answer text to its caller.
ReturnsAnswerText ==
  pc = "done" => retval.type = "str"

\* the texts that stand for the message of an exception, str(e)
RawExceptionTexts == {EXC, "completion_error", "responder_error"}

\* C11: whatever fails while a query is served, the text the end user sees
\* is a plain apology and holds no raw exception text; stated for the
\* queries route_query finished by itself, that is, with every failure
\* handled inside route_query.
NoRawExceptionShown ==
  pc = "done" => RangeOf(out) \cap RawExceptionTexts = {}

\* C12: the embedding store is append-only: every chunk row that was in the
\* store before a run writes it is still in the store afterwards.
StoreAppendOnly ==
  [][store.exists => RangeOf(store.rows) \subseteq RangeOf(store'.rows)]_vars

\* the step in which a run loads the folder, lines 217-223
RunLoads == \E outcome \in [DOMAIN files -> FileOutcomes] : RunLoad(outcome)
SupportedFiles == Supported \cap DOMAIN files

\* C13 as stated: a run that follows a run on the unchanged folder has every
\* file it can read as a cache hit, makes no embedding call and leaves the
\* rows of the store as they were.
SecondRunAllHits ==
  [][(RunLoads /\ run.status # "none" /\ run.folder = files)
     => /\ SupportedFiles \subseteq run'.hits
        /\ run'.status = "no_documents"
        /\ run'.embed_calls = 0
        /\ store' = store]_vars

\* C13: a run that follows a completed run in which no readable file
\* failed, on the unchanged folder, loads no file again, returns before any
\* embedding call and leaves the store as it was; every readable file is a
\* cache hit unless hashing it raises.
SecondRunAfterCompleted ==
  [][(RunLoads /\ run.status = "completed" /\ run.errors \cap Supported = {}
        /\ run.folder = files)
     => /\ run'.loaded = {}
        /\ SupportedFiles \subseteq run'.hits \cup run'.errors
        /\ run'.status = "no_documents"
        /\ run'.embed_calls = 0
        /\ store' = store]_vars

WitnessSecondRunAllHits ==
  /\ run.status = "no_documents"
  /\ run.hits = SupportedFiles
  /\ run.folder = files
  /\ store.exists
  /\ cache_file # {}

\* the files whose content is not the one the latest run found
Changed == {path \in DOMAIN files : files[path] # run.folder[path]}

CacheFileWrittenLast ==
  [][cache_file' # cache_file
     => /\ vec.pc = "saved"
        /\ run.status = "running"
        /\ store = Written(vec.embeddings)
        /\ cache_file' = vec.cache
        /\ run'.status = "completed"
        /\ vec'.pc = "ready"]_vars

\* a run killed after it wrote the store: the cache file is still empty
WitnessKilledBeforeCacheWrite ==
  /\ run.status = "killed"
  /\ store.exists
  /\ run.loaded # {}
  /\ cache_file = {}

\* the chunks from the k-th on whose batch is not in failing
RECURSIVE KeptFrom(_, _, _)
KeptFrom(k, split, failing) ==
  IF k > Len(split) THEN <<>>
  ELSE (IF ((k - 1) - ((k - 1) % batch_size)) \in failing THEN <<>> ELSE <<split[k]>>)
       \o KeptFrom(k + 1, split, failing)

RECURSIVE Flatten(_)
Flatten(seqs) == IF seqs = <<>> THEN <<>> ELSE Head(seqs) \o Flatten(Tail(seqs))

\* C16: generate_embeddings_batch hands the chunks to the embedding call
\* in consecutive batches of batch_size that cover every chunk once; when
\* the call of a batch raises, the rows of that batch and of no other are
\* missing from the result, and every later batch is still attempted.
BatchFailureDropsThatBatch ==
  vec.pc = "loaded" =>
    LET split == split_documents(vec.documents)
    IN  \A failing \in SUBSET BatchStarts(Len(split)) :
          LET result == generate_embeddings_batch(vec.documents, TRUE, failing)
              n == Len(result.attempted)
          IN  /\ Flatten(result.attempted) = split
              /\ \A b \in 1..n :
                    Len(result.attempted[b]) =
                      IF b < n THEN batch_size ELSE Len(split) - (n - 1) * batch_size
              /\ Len(split) - (n - 1) * batch_size \in 1..batch_size
              /\ result.data_list = Rows(KeptFrom(1, split, failing))

\* three batches were attempted, the second raised
WitnessMiddleBatchFailed ==
  LET split == split_documents(FileDocs("a.pdf", 3) \o FileDocs("b.docx", 2))
  IN  /\ vec.pc = "embedded"
      /\ run.embed_calls = 3
      /\ vec.embeddings = Rows(<<split[1], split[2], split[5]>>)

\* C17: in load_local_documents a file whose hashing or extraction raises
\* is skipped and contributes no document, and every other file of the
\* folder is still processed: it is a cache hit, or of no supported type,
\* or its documents are loaded.
FailingFileSkipped ==
  \A outcome \in [DOMAIN files -> FileOutcomes] :
    LET result == load_local_documents(files, vec.cache, outcome)
        cached == {path \in DOMAIN files : cache_key(path, files[path]) \in vec.cache}
        failed == {path \in DOMAIN files :
                     \/ outcome[path] = "hash"
                     \/ /\ outcome[path] = "extract"
                        /\ path \in Supported \ cached}
    IN  /\ result.errors = failed
        /\ result.hits = cached \ failed
        /\ result.loaded = (Supported \cap DOMAIN files) \ (cached \cup failed)
        /\ {result.docs[k].source_url : k \in 1..Len(result.docs)} = result.loaded
        /\ Len(result.docs) = Cardinality(result.loaded)

\* the first file raised and the second one was loaded
WitnessFailingFileSkipped ==
  /\ vec.pc = "loaded"
  /\ run.errors = {"a.pdf"}
  /\ run.loaded = {"b.docx"}
  /\ vec.documents = FileDocs("b.docx", files["b.docx"])

\* a step that is a call of load_cached_vectorstore
LoadCalls == \E builds \in BOOLEAN : LoadCachedVectorstore(builds)

\* C18 as stated: over any sequence of load calls and store changes only
\* the first call reads the store, and every later call returns the index
\* as first built.
OnlyFirstLoadReadsStore ==
  [][(LoadCalls /\ loads.called)
     => ~loads'.read /\ loads'.returned = loads'.built /\ loads'.built.exists]_vars

\* C18: a call with a persisted index returns it without reading the store,
\* and it is the index as first built whatever the store holds now; a call
\* without one reads the store and either persists and returns an index of
\* every row of the store or raises and persists nothing.
LoadReadsStoreIffNoIndex ==
  [][LoadCalls
     => /\ loads'.read = ~faiss_index.exists
        /\ faiss_index.exists
             => /\ faiss_index' = faiss_index
                /\ loads'.returned = faiss_index
                /\ loads'.returned = loads.built
        /\ ~faiss_index.exists
             => \/ /\ store.exists
                   /\ faiss_index' = Written(store.rows)
                   /\ loads'.returned = faiss_index'
                \/ /\ faiss_index' = faiss_index
                   /\ loads'.returned = NoFile]_vars

\* a call returned the index as first built although the store had changed
WitnessStaleIndexReturned ==
  /\ loads.called
  /\ ~loads.read
  /\ loads.stale
  /\ loads.returned = loads.built
  /\ loads.built.exists

\* C19: serving a query writes none of the artifacts of the pipeline: no
\* step of route_query changes the embedding store, the cache file or the
\* persisted vector index.
QueryPathReadOnly ==
  [][store' = store /\ cache_file' = cache_file /\ faiss_index' = faiss_index]_vars

\* C20: when the web search returns no result, search_online_and_respond
\* returns the fixed "couldn't find additional information" text, fetches
\* no page, makes no completion call and raises nothing.
NoResultsNotFound ==
  [][\A fetch \in [Urls -> Pages], completion \in OnlineAnswers \cup {RAISES} :
       Escalate(<<>>, fetch, completion)
       => /\ online_answer' = MSG_NOT_FOUND
          /\ calls' = calls \o <<"search_online_and_respond", "search_web">>
          /\ out' = Emit(out, MSG_NOT_FOUND)
          /\ pc' = "done"
          /\ exc' = "none"]_vars

WitnessNoResultsNotFound ==
  /\ pc = "done"
  /\ online_answer = MSG_NOT_FOUND
  /\ calls[Len(calls)] = "search_web"
  /\ exc = "none"


\* every result of the search has a url and the fetch of each of them fails
EveryFetchFails(results, fetch) ==
  /\ results # <<>>
  /\ ~TitleHasError(results)
  /\ \A k \in 1..Len(results) :
        results[k].url # "" /\ fetch[results[k].url].status # "200"

\* C21 as stated: when the search returns results and every fetch fails,
\* search_online_and_respond returns the text it returns for an empty
\* search.
AllFetchesFailNotFound ==
  pc = "escalate" =>
    \A results \in SearchReturns, fetch \in [Urls -> Pages],
       completion \in OnlineAnswers \cup {RAISES} :
      EveryFetchFails(results, fetch)
      => search_online_and_respond(results, fetch, completion)
           = search_online_and_respond(<<>>, fetch, completion)

\* C21: when the search returns results and every fetch fails,
\* search_online_and_respond returns the fixed "couldn't extract useful
\* content" text, which is not the text of an empty search; every result
\* is fetched, no completion call is made and no error is passed on.
AllFetchesFailNoContent ==
  pc = "escalate" =>
    \A results \in SearchReturns, fetch \in [Urls -> Pages],
       completion \in OnlineAnswers \cup {RAISES} :
      EveryFetchFails(results, fetch)
      => /\ search_online_and_respond(results, fetch, completion) = MSG_NO_CONTENT
         /\ MSG_NO_CONTENT # search_online_and_respond(<<>>, fetch, completion)
         /\ Len(EscalationCalls(results, fetch)) = 1 + Len(results)
         /\ \A k \in 1..Len(EscalationCalls(results, fetch)) :
               EscalationCalls(results, fetch)[k] # "completion"

WitnessAllFetchesFail ==
  /\ pc = "done"
  /\ online_answer = MSG_NO_CONTENT
  /\ Len(calls) >= 2
  /\ calls[Len(calls)] = FetchCall("u2")
  /\ calls[Len(calls) - 1] = FetchCall("u1")
  /\ exc = "none"


\* the results whose page was fetched with status 200 and has text
FetchedResults(results, fetch) ==
  SelectSeq(results, LAMBDA r : r.url # "" /\ fetch[r.url].status = "200"
                                  /\ fetch[r.url].text # <<>>)

\* C22: a failed fetch skips only its result: every result with a url is
\* fetched, and whenever some page was fetched the completion service is
\* called with a context of exactly the fetched pages, each with its title
\* and url.
FetchedPagesMakeContext ==
  pc = "escalate" =>
    \A results \in SearchReturns, fetch \in [Urls -> Pages] :
      (results # <<>> /\ ~TitleHasError(results))
      => LET fetched == FetchedResults(results, fetch)
             made == EscalationCalls(results, fetch)
         IN  /\ SelectSeq(made, LAMBDA c : c \in {FetchCall(u) : u \in Urls})
                  = [k \in 1..Len(SelectSeq(results, LAMBDA r : r.url # "")) |->
                       FetchCall(SelectSeq(results, LAMBDA r : r.url # "")[k].url)]
             /\ fetched # <<>>
                => /\ made[Len(made)] = "completion"
                   /\ Context(ContentPieces(results, fetch))
                        = [k \in 1..Len(fetched) |->
                             <<"Source:">> \o fetched[k].title \o <<fetched[k].url>>
                               \o fetch_webpage_content(fetch[fetched[k].url]).text]


\* C23: every page extract fetch_webpage_content returns, and every one
\* placed in the escalation context, is at most 10,000 characters long.
ExtractWithinBudget ==
  pc = "escalate" =>
    /\ \A page \in Pages : fetch_webpage_content(page).length <= 10000
    /\ \A results \in SearchReturns, fetch \in [Urls -> Pages] :
         \A k \in 1..Len(ContentPieces(results, fetch)) :
            ContentPieces(results, fetch)[k].content.length <= 10000


\* C24: one escalation makes exactly one web search, before anything else;
\* search_web keeps at most 3 results; the fetches are those of the results
\* that have a url, once each and in the order of the results, whatever the
\* fetches give, so that nothing is fetched again after a failure.
OneSearchOrderedFetches ==
  pc = "escalate" =>
    /\ \A page \in SearchPages : Len(search_web(page)) <= 3
    /\ \A results \in SearchReturns, fetch \in [Urls -> Pages] :
         LET made == EscalationCalls(results, fetch)
             fetches == SelectSeq(made, LAMBDA c : c \in {FetchCall(u) : u \in Urls})
             with_url == SelectSeq(results, LAMBDA r : r.url # "")
         IN  /\ made[1] = "search_web"
             /\ Len(SelectSeq(made, LAMBDA c : c = "search_web")) = 1
             /\ Len(fetches) <= 3
             /\ \/ fetches = <<>>
                \/ fetches = [k \in 1..Len(with_url) |-> FetchCall(with_url[k].url)]

WitnessThreeFetchesNoRetry ==
  /\ pc = "done"
  /\ online_answer = MSG_NO_CONTENT
  /\ Len(calls) >= 5
  /\ SubSeq(calls, Len(calls) - 4, Len(calls))
       = <<"search_online_and_respond", "search_web",
           FetchCall("u1"), FetchCall("u2"), FetchCall("u1")>>


\* the patterns that match a text
Matching(t) ==
  {n \in 1..Len(INSUFFICIENT_ANSWER_PATTERNS) :
     PatternSearch(INSUFFICIENT_ANSWER_PATTERNS[n], t)}

\* the pattern list turned round by k places, and read backwards
Rotated(k) ==
  [n \in 1..Len(INSUFFICIENT_ANSWER_PATTERNS) |->
     INSUFFICIENT_ANSWER_PATTERNS[((n + k - 1) % Len(INSUFFICIENT_ANSWER_PATTERNS)) + 1]]
Backwards(patterns) == [n \in 1..Len(patterns) |-> patterns[Len(patterns) + 1 - n]]
PatternOrders == {Rotated(3), Backwards(Rotated(0)), Backwards(Rotated(5))}

\* C25: is_insufficient_answer returns true exactly when at least one of
\* the patterns matches the text; the letter case of the text makes no
\* difference and neither does the order in which the patterns are tried.
InsufficientIffSomePattern ==
  retval.type = "bool" =>
    /\ retval.value <=> Matching(rag_answer) # {}
    /\ retval.value
         <=> is_insufficient_answer([k \in 1..Len(rag_answer) |-> Lower(rag_answer[k])])
    /\ \A patterns \in PatternOrders :
          InsufficientFrom(patterns, 1, rag_answer) <=> retval.value

WitnessOneLatePatternMatches ==
  /\ retval.type = "bool"
  /\ retval.value
  /\ Matching(rag_answer) = {7}
  /\ rag_answer = <<"Not", "Mentioned", "In", "The", "Context">>


\* "does not contain", then one word or more, then "information"
ContainsThenInformation(t) ==
  \E i \in 1..Len(t), j \in 1..Len(t) :
     /\ PhraseAt(t, i, <<"does", "not", "contain">>, TRUE, TRUE, TRUE)
     /\ PhraseAt(t, j, <<"information">>, TRUE, TRUE, TRUE)
     /\ j >= i + 4
     /\ NoBreak(t, i, j)

\* C26: a text that contains "no specific information available", or
\* "does not contain" followed by words and then "information", is judged
\* insufficient.
HedgingPhrasesFlagged ==
  (/\ retval.type = "bool"
   /\ \/ ContainsPhrase(rag_answer, <<"no", "specific", "information", "available">>, TRUE)
      \/ ContainsThenInformation(rag_answer))
  => retval.value


\* C27 as stated: adding to a sufficient answer a text that by itself
\* matches no pattern leaves the answer sufficient.
AddingTextKeepsSufficient ==
  [][\A text \in AnswerParts :
       (/\ AddText(text) \/ AddLine(text)
        /\ ~is_insufficient_answer(rag_answer)
        /\ ~is_insufficient_answer(text))
       => ~is_insufficient_answer(rag_answer')]_vars

\* C27: adding to a sufficient answer, on a new line, a text that by itself
\* matches no pattern leaves the answer sufficient.
AddingLineKeepsSufficient ==
  [][\A text \in AnswerParts :
       (/\ AddLine(text)
        /\ ~is_insufficient_answer(rag_answer)
        /\ ~is_insufficient_answer(text))
       => ~is_insufficient_answer(rag_answer')]_vars

WitnessHalvesOnTwoLines ==
  /\ rag_answer = <<"does", "not", "contain", NL, "any", "information">>
  /\ retval.type = "bool"
  /\ ~retval.value


\* the lower-cased query contains one of the keywords
KeywordInLowered(q) ==
  \E n \in 1..Len(infoblox_keywords) :
     ContainsPhrase([k \in 1..Len(q) |-> Lower(q[k])], infoblox_keywords[n], FALSE)

\* what the two paths print first
DirectPathLines == {"Using GPT-4o for Infoblox-related question:"}
RetrievalPathLines == {"Using cached FAISS index from:", "Loading embeddings from Parquet:"}

\* C28: on a product dispatch exactly one path runs: answer_direct_gpt when
\* the lower-cased query contains a keyword, and otherwise the loading of
\* the index followed by run_rag_query; the direct path neither loads nor
\* builds the index.
ProductPathByKeyword ==
  [][(pc = "respond" /\ decision = "product" /\ pc' # "respond") =>
       LET direct == RangeOf(captured_output') \cap DirectPathLines # {}
           retrieval == RangeOf(captured_output') \cap RetrievalPathLines # {}
       IN  /\ direct <=> KeywordInLowered(query)
           /\ retrieval <=> ~KeywordInLowered(query)
           /\ direct => faiss_index' = faiss_index
           /\ RAG_MARKER \in RangeOf(captured_output') \ RangeOf(query) => retrieval
           /\ GPT_MARKER \in RangeOf(captured_output') \ RangeOf(query) => direct]_vars

WitnessDirectPathNoIndex ==
  /\ pc \in {"evaluate", "done"}
  /\ decision = "product"
  /\ query = <<"NIOS", "upgrade">>
  /\ RangeOf(captured_output) \cap DirectPathLines # {}
  /\ GPT_MARKER \in RangeOf(captured_output)
  /\ store.exists
  /\ ~faiss_index.exists


\* C29: when every external call returns or fails, an execution of
\* route_query that has started classifying reaches Done.
RouteQueryReachesDone == (pc = "classify") ~> (pc = "done")


\* C30: a ranked search returns at most k results, in descending order of
\* score, and results of equal score in the order of their rows.
RankedSearches ==
  retval.type = "results" =>
    /\ Len(retval.value) <= retval.k
    /\ \A i, j \in 1..Len(retval.value) :
          i < j => /\ retval.value[i].score >= retval.value[j].score
                   /\ retval.value[i].score = retval.value[j].score
                        => retval.value[i].row < retval.value[j].row

\* C31: lookup_employee on a name that is, letter case apart, the name of a
\* directory entry with a manager returns two lines: the first names the
\* title of the employee and the second names the manager, whether or not
\* the manager has an entry of their own.
LookedUp == retval # Pending /\ retval.type = "str" /\ Len(query) = 1
OccursIn(w, line) == \E i \in 1..Len(line) : line[i] = w
TwoLinesTitleAndManager ==
  LookedUp /\ Lower(query[1]) \in DictKeys(ORG_CHART_DATA) =>
    LET employee == DictGet(ORG_CHART_DATA, Lower(query[1]))
        lines == SplitLines(retval.value)
    IN  employee.manager # "" =>
          /\ Len(lines) = 2
          /\ OccursIn(employee.title, lines[1])
          /\ OccursIn(employee.manager, lines[2])
WitnessManagerWithoutEntry ==
  /\ LookedUp
  /\ query[1] = "JANE DOE"
  /\ DictKeys(ORG_CHART_DATA) = {"jane doe"}
  /\ DictGet(ORG_CHART_DATA, "jane doe") =
       [name |-> "Jane Doe", title |-> "Engineer", manager |-> "John Smith"]
  /\ retval.value = <<"Jane Doe", "has the job title:", "Engineer", NL,
                      "Their manager is", "John Smith", "(", "Unknown Title", ")">>

\* C32: route_query leaves sys.stdout as it found it: wherever route_query
\* has ended, by a return of any branch, by the handler of a responder that
\* raised, after the extraction of the answer or after the escalation, or
\* by the exception of the classifier, sys.stdout is the stream it was when
\* route_query was entered.
RouteQueryEnded == pc \in {"done", "raised"}
StdoutLeftAsFound == RouteQueryEnded => sys_stdout = "old_stdout"
WitnessRestoredAfterResponderRaised ==
  /\ pc = "done"
  /\ decision = "product"
  /\ calls = <<"classify_query", "product">>
  /\ captured_output # <<>>
  /\ out = Emit(Emit(<<>>, Header("product")), Apology("product"))
  /\ sys_stdout = "old_stdout"

\* C33: when two /api/chat requests are handled at the same time, whatever
\* the order of their steps, the message of each response is exactly the
\* output produced for its own query, with nothing of the other's, and
\* after both responses sys.stdout is the stream it was at the start.
Answered(i) == requests[i].pc = "responded" /\ requests[i].response.success
OwnOutputs(i) ==
  IF requests[i].branch = "Default" THEN { << <<i, "menu">> >> }
  ELSE { << <<i, "header">>, <<i, text>> >> : text \in {"answer", "apology"} }
ConcurrentRequestsIsolated ==
  (\A i \in Requests : Answered(i)) =>
     /\ \A i \in Requests : requests[i].response.message \in OwnOutputs(i)
     /\ sys_stdout = "old_stdout"

\* C34: the /api/chat handler puts sys.stdout back on every outcome: after
\* a request that was handled alone has been answered, with the message or
\* with the 500 response for an exception of route_query, sys.stdout is the
\* stream it was before the request.
HandledAlone(i) ==
  /\ requests[i].pc = "responded"
  /\ \A j \in Requests \ {i} : requests[j].pc = "idle"
ChatRestoresOnEveryOutcome ==
  \A i \in Requests : HandledAlone(i) => sys_stdout = "old_stdout"

\* C35: a key in the persisted cache file means that the file is embedded:
\* whenever a run adds a key path|hash to the cache file, every chunk of
\* that version of the file is a row of the store the run wrote; a file
\* one of whose batches failed to embed is not recorded.
KeyPath(key) == key[1]
KeyContent(key) == key[3][2]
ChunksOf(key) ==
  split_documents(FileDocs(KeyPath(key), KeyContent(key)))
AllChunksIn(key, rows) ==
  \A k \in 1..Len(ChunksOf(key)) :
     \E n \in 1..Len(rows) : rows[n] = Row(ChunksOf(key)[k])
PersistedKeyMeansEmbedded ==
  [][\A key \in cache_file' \ cache_file : AllChunksIn(key, store'.rows)]_vars

\* C36: a run that ended without writing the store because no embeddings
\* were generated (every batch failed, or splitting failed) leaves its
\* files uncached: in the next run on the unchanged folder none of the
\* files that run loaded is a cache hit, also when the next run is made by
\* the same LocalVectorizer instance.
FilesOfFailedRunLoadedAgain ==
  [][(RunLoads /\ run.status = "no_embeddings" /\ run.folder = files)
       => run'.hits \cap run.loaded = {}]_vars

\* C37: search_online_and_respond returns the "couldn't find additional
\* information" text only when the web search failed or gave no result:
\* when the search request succeeded with at least one result, whatever the
\* titles of the results, the pipeline does not return that text and goes
\* on to fetch the page of every result that has a url.
SearchSucceeded(page) == page # SEARCH_FAILS /\ search_web(page) # <<>>
ResultsWithUrl(results) == SelectSeq(results, LAMBDA r : r.url # "")
NotFoundOnlyWithoutResults ==
  pc = "escalate" =>
    \A page \in SearchPages, fetch \in [Urls -> Pages] :
      SearchSucceeded(page)
      => /\ search_online_and_respond(search_web(page), fetch, RAISES) # MSG_NOT_FOUND
         /\ Len(EscalationCalls(search_web(page), fetch))
               >= 1 + Len(ResultsWithUrl(search_web(page)))

\* C38: on the product path, when the output captured from the responder
\* that returned holds no answer marker, or nothing after it, route_query
\* prints the fixed "I don't have enough information" text and does not
\* escalate; search_online_and_respond is invoked only for an extracted
\* answer that is not empty and matches an insufficiency pattern.
HandlerRan(tag) == \E k \in 1..Len(out) : out[k] = Apology(tag)[1]
ProductReturned ==
  decision = "product" /\ Invoked("product") /\ ~HandlerRan("product")
Escalated == pc = "escalate" \/ Invoked("search_online_and_respond")
MarkerFree(output) ==
  \A k \in 1..Len(SplitLines(output)) : ~IsMarkerLine(SplitLines(output)[k])
EscalationOnlyForInsufficientAnswer ==
  /\ ProductReturned /\ Strip(rag_answer) = <<>>
       => /\ out = Emit(Emit(<<>>, Header("product")), NO_INFO_MESSAGE)
          /\ ~Escalated
  /\ Escalated => Strip(rag_answer) # <<>> /\ is_insufficient_answer(rag_answer)
  /\ pc = "respond" /\ decision = "product"
       => \A indexed \in BOOLEAN, stage \in {"load", "answer"} :
            LET output == EmitAll(<<>>, ProductPrintsBefore(query, indexed, stage))
            IN  MarkerFree(output)
                => /\ ExtractAnswer(output) = <<>>
                   /\ CleanAnswer(ExtractAnswer(output)) = NO_INFO_MESSAGE
                   /\ AfterAnswer(ExtractAnswer(output)) = "done"
WitnessNothingAfterMarker ==
  /\ pc = "done"
  /\ calls = <<"classify_query", "product", "is_insufficient_answer">>
  /\ ~MarkerFree(captured_output)
  /\ rag_answer # <<>>
  /\ Strip(rag_answer) = <<>>
  /\ out = Emit(Emit(<<>>, Header("product")), NO_INFO_MESSAGE)

\* C39: every execution of route_query that returns has printed, after the
\* header of its branch, at least one line of answer, apology or capability
\* text; in particular the learning branch prints a message when the course
\* search gives an empty list of results.
TextAfterHeader(stream, header) ==
  /\ Len(stream) > Len(header)
  /\ SubSeq(stream, 1, Len(header)) = header
  /\ \E k \in (Len(header) + 1)..Len(stream) : stream[k] # NL
EveryReturnPrintsText ==
  pc = "done" =>
    IF decision = "Default" THEN out = MenuOnly
    ELSE TextAfterHeader(out, Emit(<<>>, Header(decision)))

====
